---------------------------- MODULE Spec2Model ----------------------------
(***************************************************************************)
(* Model of the PIVOT analysis engine of insight-youtube-collector         *)
(* (src/insight_youtube_collector/analyzer/pivot_analyzer.py).             *)
(*                                                                         *)
(* Text is a sequence of Unicode code points, so that "kw in text" and the *)
(* regular expressions of the rule tables are evaluated character by       *)
(* character, exactly as Python does.  Real numbers are scaled integers:   *)
(* confidence in hundredths, degree factor and certainty in tenths,        *)
(* intensity in hundredths, domain weights in tenths.  The adjective       *)
(* sentiment score is kept as the fraction num/den.                        *)
(***************************************************************************)
EXTENDS Integers, Sequences, FiniteSets, TLC

(***************************************************************************)
(* PIVOT voice definitions (class PIVOT).                                  *)
(***************************************************************************)
PIVOT_ALL == <<"P", "I", "V", "O", "T">>

LABELS == [P |-> "Pain", I |-> "Insecurity", V |-> "Vision", O |-> "Objection", T |-> "Traction"]

\* a sign slip in the table entry of O
SCORES_signSlip == [P |-> -2, I |-> -1, V |-> 1, O |-> 1, T |-> 2]

SCORES == [P |-> -2, I |-> -1, V |-> 1, O |-> -1, T |-> 2]

VERB_CATEGORY_TO_PIVOT ==
  [OBSTACLE |-> "P", DIFFICULTY |-> "P", LOSS |-> "I", DESIRE |-> "V", REJECTION |-> "O", SUCCESS |-> "T"]

(***************************************************************************)
(* Regular-expression elements used by the rule tables: (.+?) , a group of *)
(* literal alternatives (?:a|b) (a bare literal is a group of one), and    *)
(* the anchor $.                                                           *)
(***************************************************************************)
AnyChars == [t |-> "any", alts |-> <<>>]

EndAnchor == [t |-> "end", alts |-> <<>>]

Alt(a) == [t |-> "alt", alts |-> a]

\* the patterns of LAYER_PATTERNS are one capturing group each: (.{min,max}lit), or
\* (a|b|c) where an alternative x? stands as the two alternatives x, x without its last character
Span(min, max, lit) == [t |-> "span", min |-> min, max |-> max, alts |-> <<lit>>]

Group(a) == [t |-> "group", min |-> 0, max |-> 0, alts |-> a]

(* VERB_CATEGORY_DICT: verb phrases per category, in declaration order.  A phrase
   is the sequence of the code points of its characters. *)
VERB_CATEGORY_DICT ==
  <<
    [key |-> "OBSTACLE", words |-> <<
      <<27490, 12414, 12427>>,  \* 止まる
      <<33853, 12385, 12427>>,  \* 落ちる
      <<28040, 12360, 12427>>,  \* 消える
      <<22730, 12428, 12427>>,  \* 壊れる
      <<38291, 36949, 12360, 12427>>,  \* 間違える
      <<21205, 12363, 12394, 12356>>,  \* 動かない
      <<36215, 21205, 12375, 12394, 12356>>,  \* 起動しない
      <<12501, 12522, 12540, 12474, 12377, 12427>>,  \* フリーズする
      <<12463, 12521, 12483, 12471, 12517, 12377, 12427>>,  \* クラッシュする
      <<36933, 12428, 12427>>,  \* 遅れる
      <<28382, 12427>>,  \* 滞る
      <<20572, 28382, 12377, 12427>>,  \* 停滞する
      <<20013, 26029, 12377, 12427>>,  \* 中断する
      <<36884, 20999, 12428, 12427>>,  \* 途切れる
      <<28431, 12428, 12427>>,  \* 漏れる
      <<25244, 12369, 12427>>,  \* 抜ける
      <<24536, 12428, 12427>>,  \* 忘れる
      <<35211, 33853, 12392, 12377>>,  \* 見落とす
      <<12511, 12473, 12427>>  \* ミスる
    >>],
    [key |-> "DIFFICULTY", words |-> <<
      <<22256, 12427>>,  \* 困る
      <<35440, 12414, 12427>>,  \* 詰まる
      <<24745, 12416>>,  \* 悩む
      <<36855, 12358>>,  \* 迷う
      <<20998, 12363, 12425, 12394, 12356>>,  \* 分からない
      <<33510, 21172, 12377, 12427>>,  \* 苦労する
      <<25163, 38291, 21462, 12427>>,  \* 手間取る
      <<12390, 12371, 12378, 12427>>,  \* てこずる
      <<34892, 12365, 35440, 12414, 12427>>,  \* 行き詰まる
      <<36861, 12356, 12388, 12363, 12394, 12356>>,  \* 追いつかない
      <<38291, 12395, 21512, 12431, 12394, 12356>>,  \* 間に合わない
      <<36275, 12426, 12394, 12356>>,  \* 足りない
      <<19981, 36275, 12377, 12427>>,  \* 不足する
      <<12388, 12414, 12378, 12367>>,  \* つまずく
      <<12495, 12510, 12427>>,  \* ハマる
      <<27836, 12427>>  \* 沼る
    >>],
    [key |-> "LOSS", words |-> <<
      <<22833, 12358>>,  \* 失う
      <<36766, 12417, 12427>>,  \* 辞める
      <<12394, 12367, 12394, 12427>>,  \* なくなる
      <<28187, 12427>>,  \* 減る
      <<12356, 12394, 12367, 12394, 12427>>,  \* いなくなる
      <<36864, 32887, 12377, 12427>>,  \* 退職する
      <<38626, 32887, 12377, 12427>>,  \* 離職する
      <<21435, 12427>>,  \* 去る
      <<25244, 12369, 12427>>,  \* 抜ける
      <<24536, 12428, 12425, 12428, 12427>>,  \* 忘れられる
      <<24341, 12365, 32153, 12370, 12394, 12356>>,  \* 引き継げない
      <<20253, 12431, 12425, 12394, 12356>>,  \* 伝わらない
      <<38515, 33104, 21270, 12377, 12427>>,  \* 陳腐化する
      <<26178, 20195, 36933, 12428, 12395, 12394, 12427>>,  \* 時代遅れになる
      <<24259, 27490, 12373, 12428, 12427>>  \* 廃止される
    >>],
    [key |-> "DESIRE", words |-> <<
      <<27442, 12375, 12356>>,  \* 欲しい
      <<12411, 12375, 12356>>,  \* ほしい
      <<12375, 12383, 12356>>,  \* したい
      <<12420, 12426, 12383, 12356>>,  \* やりたい
      <<12394, 12426, 12383, 12356>>,  \* なりたい
      <<12391, 12365, 12427, 12424, 12358, 12395, 12375, 12383, 12356>>,  \* できるようにしたい
      <<23455, 29694, 12375, 12383, 12356>>,  \* 実現したい
      <<23566, 20837, 12375, 12383, 12356>>,  \* 導入したい
      <<25913, 21892, 12375, 12383, 12356>>,  \* 改善したい
      <<21177, 29575, 21270, 12375, 12383, 12356>>,  \* 効率化したい
      <<33258, 21205, 21270, 12375, 12383, 12356>>,  \* 自動化したい
      <<22793, 12360, 12383, 12356>>,  \* 変えたい
      <<35211, 12383, 12356>>,  \* 見たい
      <<30693, 12426, 12383, 12356>>,  \* 知りたい
      <<20351, 12356, 12383, 12356>>  \* 使いたい
    >>],
    [key |-> "REJECTION", words |-> <<
      <<23244, 12364, 12427>>,  \* 嫌がる
      <<21453, 23550, 12377, 12427>>,  \* 反対する
      <<25298, 12416>>,  \* 拒む
      <<25298, 21542, 12377, 12427>>,  \* 拒否する
      <<28961, 35222, 12377, 12427>>,  \* 無視する
      <<12420, 12426, 12383, 12367, 12394, 12356>>,  \* やりたくない
      <<12375, 12383, 12367, 12394, 12356>>,  \* したくない
      <<20351, 12356, 12383, 12367, 12394, 12356>>,  \* 使いたくない
      <<35469, 12417, 12394, 12356>>,  \* 認めない
      <<32013, 24471, 12375, 12394, 12356>>,  \* 納得しない
      <<21463, 12369, 20837, 12428, 12394, 12356>>,  \* 受け入れない
      <<23244, 12384>>,  \* 嫌だ
      <<38754, 20498, 12367, 12373, 12356>>,  \* 面倒くさい
      <<12384, 12427, 12356>>  \* だるい
    >>],
    [key |-> "SUCCESS", words |-> <<
      <<12391, 12365, 12427>>,  \* できる
      <<22238, 12427>>,  \* 回る
      <<12358, 12414, 12367, 12356, 12367>>,  \* うまくいく
      <<23450, 30528, 12377, 12427>>,  \* 定着する
      <<20351, 12356, 12371, 12394, 12377>>,  \* 使いこなす
      <<27231, 33021, 12377, 12427>>,  \* 機能する
      <<21205, 12367>>,  \* 動く
      <<25104, 21151, 12377, 12427>>,  \* 成功する
      <<36948, 25104, 12377, 12427>>,  \* 達成する
      <<25913, 21892, 12373, 12428, 12383>>,  \* 改善された
      <<21177, 29575, 21270, 12373, 12428, 12383>>,  \* 効率化された
      <<20415, 21033, 12395, 12394, 12387, 12383>>,  \* 便利になった
      <<21161, 12363, 12427>>,  \* 助かる
      <<27005, 12395, 12394, 12427>>,  \* 楽になる
      <<12473, 12512, 12540, 12474, 12395, 12394, 12427>>  \* スムーズになる
    >>]
  >>

(* ADJECTIVE_SENTIMENT_DICT *)
ADJECTIVE_SENTIMENT_DICT ==
  <<
    [key |-> "NEGATIVE", words |-> <<
      <<36933, 12356>>,  \* 遅い
      <<38627, 12375, 12356>>,  \* 難しい
      <<38754, 20498, 12394>>,  \* 面倒な
      <<29033, 38609, 12394>>,  \* 煩雑な
      <<19981, 20415, 12394>>,  \* 不便な
      <<20998, 12363, 12426, 12395, 12367, 12356>>,  \* 分かりにくい
      <<35079, 38609, 12394>>,  \* 複雑な
      <<22823, 22793, 12394>>,  \* 大変な
      <<21427, 12375, 12356>>,  \* 厳しい
      <<36763, 12356>>,  \* 辛い
      <<12365, 12388, 12356>>,  \* きつい
      <<37325, 12356>>,  \* 重い
      <<24746, 12356>>,  \* 悪い
      <<12480, 12513, 12394>>,  \* ダメな
      <<12414, 12378, 12356>>,  \* まずい
      <<12402, 12393, 12356>>,  \* ひどい
      <<26368, 24746, 12394>>,  \* 最悪な
      <<20351, 12356, 12395, 12367, 12356>>,  \* 使いにくい
      <<35211, 12389, 12425, 12356>>,  \* 見づらい
      <<20998, 12363, 12426, 12389, 12425, 12356>>,  \* 分かりづらい
      <<21476, 12356>>,  \* 古い
      <<26178, 20195, 36933, 12428, 12394>>,  \* 時代遅れな
      <<38750, 21177, 29575, 12394>>,  \* 非効率な
      <<28961, 39364, 12394>>  \* 無駄な
    >>],
    [key |-> "POSITIVE", words |-> <<
      <<26089, 12356>>,  \* 早い
      <<36895, 12356>>,  \* 速い
      <<31777, 21336, 12394>>,  \* 簡単な
      <<20415, 21033, 12394>>,  \* 便利な
      <<20351, 12356, 12420, 12377, 12356>>,  \* 使いやすい
      <<20998, 12363, 12426, 12420, 12377, 12356>>,  \* 分かりやすい
      <<12471, 12531, 12503, 12523, 12394>>,  \* シンプルな
      <<27005, 12394>>,  \* 楽な
      <<24555, 36969, 12394>>,  \* 快適な
      <<12473, 12512, 12540, 12474, 12394>>,  \* スムーズな
      <<21177, 29575, 30340, 12394>>,  \* 効率的な
      <<33391, 12356>>,  \* 良い
      <<12356, 12356>>,  \* いい
      <<32032, 26228, 12425, 12375, 12356>>,  \* 素晴らしい
      <<26368, 39640, 12394>>,  \* 最高な
      <<20778, 31168, 12394>>,  \* 優秀な
      <<35211, 12420, 12377, 12356>>,  \* 見やすい
      <<25805, 20316, 12375, 12420, 12377, 12356>>,  \* 操作しやすい
      <<30452, 24863, 30340, 12394>>,  \* 直感的な
      <<26032, 12375, 12356>>,  \* 新しい
      <<12514, 12480, 12531, 12394>>,  \* モダンな
      <<26368, 26032, 12394>>  \* 最新な
    >>],
    [key |-> "ANXIETY", words |-> <<
      <<19981, 23433, 12394>>,  \* 不安な
      <<24515, 37197, 12394>>,  \* 心配な
      <<21361, 12358, 12356>>,  \* 危うい
      <<24618, 12375, 12356>>,  \* 怪しい
      <<21361, 38522, 12394>>,  \* 危険な
      <<19981, 30906, 12363, 12394>>,  \* 不確かな
      <<26326, 26151, 12394>>,  \* 曖昧な
      <<33030, 12356>>,  \* 脆い
      <<33030, 24369, 12394>>,  \* 脆弱な
      <<23646, 20154, 30340, 12394>>,  \* 属人的な
      <<12502, 12521, 12483, 12463, 12508, 12483, 12463, 12473, 12394>>  \* ブラックボックスな
    >>]
  >>

(* DEGREE_ADVERBS: the factor is stored in tenths (1.5 is 15). *)
DEGREE_ADVERBS ==
  <<
    [key |-> 15, words |-> <<
      <<38750, 24120, 12395>>,  \* 非常に
      <<26997, 12417, 12390>>,  \* 極めて
      <<20840, 12367>>,  \* 全く
      <<32118, 23550, 12395>>,  \* 絶対に
      <<21040, 24213>>,  \* 到底
      <<12417, 12385, 12419, 12367, 12385, 12419>>,  \* めちゃくちゃ
      <<12417, 12387, 12385, 12419>>,  \* めっちゃ
      <<12377, 12372, 12367>>,  \* すごく
      <<12418, 12398, 12377, 12372, 12367>>,  \* ものすごく
      <<23436, 20840, 12395>>,  \* 完全に
      <<49, 48, 48, 37>>,  \* 100%
      <<38291, 36949, 12356, 12394, 12367>>  \* 間違いなく
    >>],
    [key |-> 13, words |-> <<
      <<12363, 12394, 12426>>,  \* かなり
      <<12392, 12390, 12418>>,  \* とても
      <<30456, 24403>>,  \* 相当
      <<22823, 24133, 12395>>,  \* 大幅に
      <<22823, 12356, 12395>>,  \* 大いに
      <<12384, 12356, 12406>>,  \* だいぶ
      <<12378, 12356, 12406, 12435>>,  \* ずいぶん
      <<12394, 12363, 12394, 12363>>  \* なかなか
    >>],
    [key |-> 10, words |-> <<
    >>],
    [key |-> 7, words |-> <<
      <<23569, 12375>>,  \* 少し
      <<22810, 23569>>,  \* 多少
      <<12420, 12420>>,  \* やや
      <<12385, 12423, 12387, 12392>>,  \* ちょっと
      <<33509, 24178>>,  \* 若干
      <<12431, 12378, 12363, 12395>>,  \* わずかに
      <<24190, 20998>>,  \* 幾分
      <<12356, 12367, 12425, 12363>>  \* いくらか
    >>],
    [key |-> 4, words |-> <<
      <<12411, 12392, 12435, 12393>>,  \* ほとんど
      <<12354, 12414, 12426>>,  \* あまり
      <<12383, 12356, 12375, 12390>>,  \* たいして
      <<12381, 12428, 12411, 12393>>  \* それほど
    >>]
  >>

(* TAIL_PATTERNS: (pattern, certainty in tenths, pivot_tendency), in declared order. *)
TAIL_PATTERNS ==
  <<
    \* (?:です|ます|だ|である)$
    [pattern |-> <<Alt(<<<<12391, 12377>>, <<12414, 12377>>, <<12384>>, <<12391, 12354, 12427>>>>), EndAnchor>>, certainty |-> 10, tendency |-> "P"],
    \* (?:ですね|ますね|だね|だよね)$
    [pattern |-> <<Alt(<<<<12391, 12377, 12397>>, <<12414, 12377, 12397>>, <<12384, 12397>>, <<12384, 12424, 12397>>>>), EndAnchor>>, certainty |-> 10, tendency |-> "P"],
    \* (?:ました|した|てしまった|ちゃった)$
    [pattern |-> <<Alt(<<<<12414, 12375, 12383>>, <<12375, 12383>>, <<12390, 12375, 12414, 12387, 12383>>, <<12385, 12419, 12387, 12383>>>>), EndAnchor>>, certainty |-> 9, tendency |-> "P"],
    \* (?:ている|てる|ていた|てた)$
    [pattern |-> <<Alt(<<<<12390, 12356, 12427>>, <<12390, 12427>>, <<12390, 12356, 12383>>, <<12390, 12383>>>>), EndAnchor>>, certainty |-> 9, tendency |-> "P"],
    \* (?:かもしれない|かもしれません)$
    [pattern |-> <<Alt(<<<<12363, 12418, 12375, 12428, 12394, 12356>>, <<12363, 12418, 12375, 12428, 12414, 12379, 12435>>>>), EndAnchor>>, certainty |-> 6, tendency |-> "I"],
    \* (?:だろう|でしょう)$
    [pattern |-> <<Alt(<<<<12384, 12429, 12358>>, <<12391, 12375, 12423, 12358>>>>), EndAnchor>>, certainty |-> 6, tendency |-> "I"],
    \* (?:と思う|と思います)$
    [pattern |-> <<Alt(<<<<12392, 24605, 12358>>, <<12392, 24605, 12356, 12414, 12377>>>>), EndAnchor>>, certainty |-> 6, tendency |-> "I"],
    \* (?:気がする|気がします)$
    [pattern |-> <<Alt(<<<<27671, 12364, 12377, 12427>>, <<27671, 12364, 12375, 12414, 12377>>>>), EndAnchor>>, certainty |-> 6, tendency |-> "I"],
    \* (?:らしい|らしいです)$
    [pattern |-> <<Alt(<<<<12425, 12375, 12356>>, <<12425, 12375, 12356, 12391, 12377>>>>), EndAnchor>>, certainty |-> 4, tendency |-> "I"],
    \* (?:そうだ|そうです)$
    [pattern |-> <<Alt(<<<<12381, 12358, 12384>>, <<12381, 12358, 12391, 12377>>>>), EndAnchor>>, certainty |-> 4, tendency |-> "I"],
    \* (?:てほしい|てほしいです|ていただきたい)$
    [pattern |-> <<Alt(<<<<12390, 12411, 12375, 12356>>, <<12390, 12411, 12375, 12356, 12391, 12377>>, <<12390, 12356, 12383, 12384, 12365, 12383, 12356>>>>), EndAnchor>>, certainty |-> 8, tendency |-> "V"],
    \* (?:たい|たいです|たいと思う)$
    [pattern |-> <<Alt(<<<<12383, 12356>>, <<12383, 12356, 12391, 12377>>, <<12383, 12356, 12392, 24605, 12358>>>>), EndAnchor>>, certainty |-> 8, tendency |-> "V"],
    \* (?:ばいいのに|といいのに)$
    [pattern |-> <<Alt(<<<<12400, 12356, 12356, 12398, 12395>>, <<12392, 12356, 12356, 12398, 12395>>>>), EndAnchor>>, certainty |-> 8, tendency |-> "V"],
    \* (?:たくない|たくないです)$
    [pattern |-> <<Alt(<<<<12383, 12367, 12394, 12356>>, <<12383, 12367, 12394, 12356, 12391, 12377>>>>), EndAnchor>>, certainty |-> 8, tendency |-> "O"],
    \* (?:てほしくない|ないでほしい)$
    [pattern |-> <<Alt(<<<<12390, 12411, 12375, 12367, 12394, 12356>>, <<12394, 12356, 12391, 12411, 12375, 12356>>>>), EndAnchor>>, certainty |-> 8, tendency |-> "O"]
  >>

(* PIVOT_KEYWORDS: per voice, the keyword list and the regex list. *)
PIVOT_KEYWORDS ==
  [
    P |-> [keywords |-> <<
      <<22256, 12387, 12390, 12356, 12427>>,  \* 困っている
      <<21839, 38988>>,  \* 問題
      <<35506, 38988>>,  \* 課題
      <<12358, 12414, 12367, 12356, 12363, 12394, 12356>>,  \* うまくいかない
      <<12391, 12365, 12394, 12356>>,  \* できない
      <<38627, 12375, 12356>>,  \* 難しい
      <<38556, 23475>>,  \* 障害
      <<12508, 12488, 12523, 12493, 12483, 12463>>,  \* ボトルネック
      <<12488, 12521, 12502, 12523>>,  \* トラブル
      <<12456, 12521, 12540>>,  \* エラー
      <<36933, 12428>>,  \* 遅れ
      <<36933, 24310>>,  \* 遅延
      <<19981, 36275>>,  \* 不足
      <<12511, 12473>>,  \* ミス
      <<22833, 25943>>,  \* 失敗
      <<27490, 12414, 12427>>,  \* 止まる
      <<26178, 38291, 12364, 12363, 12363, 12427>>,  \* 時間がかかる
      <<25163, 38291>>,  \* 手間
      <<38750, 21177, 29575>>,  \* 非効率
      <<28961, 39364>>,  \* 無駄
      <<38754, 20498>>,  \* 面倒
      <<12496, 12464>>,  \* バグ
      <<19981, 20855, 21512>>,  \* 不具合
      <<25925, 38556>>,  \* 故障
      <<33853, 12385, 12427>>,  \* 落ちる
      <<21205, 12363, 12394, 12356>>  \* 動かない
    >>, patterns |-> <<
      \* (.+?)(?:で|に)困っている
      <<AnyChars, Alt(<<<<12391>>, <<12395>>>>), Alt(<<<<22256, 12387, 12390, 12356, 12427>>>>)>>,
      \* (.+?)(?:が|は)(?:問題|課題)(?:だ|です|になっている)
      <<AnyChars, Alt(<<<<12364>>, <<12399>>>>), Alt(<<<<21839, 38988>>, <<35506, 38988>>>>), Alt(<<<<12384>>, <<12391, 12377>>, <<12395, 12394, 12387, 12390, 12356, 12427>>>>)>>,
      \* (.+?)(?:が|は)(?:うまくいかない|難しい|厳しい)
      <<AnyChars, Alt(<<<<12364>>, <<12399>>>>), Alt(<<<<12358, 12414, 12367, 12356, 12363, 12394, 12356>>, <<38627, 12375, 12356>>, <<21427, 12375, 12356>>>>)>>,
      \* (.+?)(?:が|に)時間がかかる
      <<AnyChars, Alt(<<<<12364>>, <<12395>>>>), Alt(<<<<26178, 38291, 12364, 12363, 12363, 12427>>>>)>>,
      \* (.+?)(?:で|が)(?:ミス|エラー|トラブル)が(?:起きる|発生)
      <<AnyChars, Alt(<<<<12391>>, <<12364>>>>), Alt(<<<<12511, 12473>>, <<12456, 12521, 12540>>, <<12488, 12521, 12502, 12523>>>>), Alt(<<<<12364>>>>), Alt(<<<<36215, 12365, 12427>>, <<30330, 29983>>>>)>>
    >>],
    I |-> [keywords |-> <<
      <<24515, 37197>>,  \* 心配
      <<19981, 23433>>,  \* 不安
      <<25080, 24565>>,  \* 懸念
      <<27671, 12395, 12394, 12427>>,  \* 気になる
      <<27671, 12364, 12363, 12426>>,  \* 気がかり
      <<22823, 19976, 22827, 12363>>,  \* 大丈夫か
      <<12522, 12473, 12463>>,  \* リスク
      <<21361, 12394, 12356>>,  \* 危ない
      <<12418, 12375, 12363, 12375, 12383, 12425>>,  \* もしかしたら
      <<12363, 12418, 12375, 12428, 12394, 12356>>,  \* かもしれない
      <<24656, 12428>>,  \* 恐れ
      <<23646, 20154, 21270>>,  \* 属人化
      <<24341, 32153, 12366>>,  \* 引継ぎ
      <<36766, 12417, 12383, 12425>>,  \* 辞めたら
      <<12356, 12394, 12367, 12394, 12387, 12383, 12425>>,  \* いなくなったら
      <<23558, 26469>>,  \* 将来
      <<20170, 24460>>,  \* 今後
      <<20808, 34892, 12365>>,  \* 先行き
      <<35211, 36890, 12375>>,  \* 見通し
      <<12502, 12521, 12483, 12463, 12508, 12483, 12463, 12473>>  \* ブラックボックス
    >>, patterns |-> <<
      \* (.+?)(?:が|を)(?:心配|不安|懸念)
      <<AnyChars, Alt(<<<<12364>>, <<12434>>>>), Alt(<<<<24515, 37197>>, <<19981, 23433>>, <<25080, 24565>>>>)>>,
      \* (.+?)(?:かもしれない|恐れがある)
      <<AnyChars, Alt(<<<<12363, 12418, 12375, 12428, 12394, 12356>>, <<24656, 12428, 12364, 12354, 12427>>>>)>>,
      \* (?:辞め|いなくなっ)たら(.+?)(?:が|は|も)(?:困る|終わる|できない)
      <<Alt(<<<<36766, 12417>>, <<12356, 12394, 12367, 12394, 12387>>>>), Alt(<<<<12383, 12425>>>>), AnyChars, Alt(<<<<12364>>, <<12399>>, <<12418>>>>), Alt(<<<<22256, 12427>>, <<32066, 12431, 12427>>, <<12391, 12365, 12394, 12356>>>>)>>,
      \* (.+?)(?:が|は)属人化(?:している|されている)
      <<AnyChars, Alt(<<<<12364>>, <<12399>>>>), Alt(<<<<23646, 20154, 21270>>>>), Alt(<<<<12375, 12390, 12356, 12427>>, <<12373, 12428, 12390, 12356, 12427>>>>)>>
    >>],
    V |-> [keywords |-> <<
      <<12375, 12390, 12411, 12375, 12356>>,  \* してほしい
      <<27442, 12375, 12356>>,  \* 欲しい
      <<12411, 12375, 12356>>,  \* ほしい
      <<12364, 12354, 12428, 12400>>,  \* があれば
      <<12391, 12365, 12383, 12425>>,  \* できたら
      <<26399, 24453>>,  \* 期待
      <<35201, 26395>>,  \* 要望
      <<24076, 26395>>,  \* 希望
      <<29702, 24819>>,  \* 理想
      <<25913, 21892, 12375, 12383, 12356>>,  \* 改善したい
      <<21177, 29575, 21270>>,  \* 効率化
      <<33258, 21205, 21270>>,  \* 自動化
      <<12471, 12473, 12486, 12512, 21270>>,  \* システム化
      <<12487, 12472, 12479, 12523, 21270>>,  \* デジタル化
      <<12375, 12383, 12356>>,  \* したい
      <<12391, 12365, 12427, 12424, 12358, 12395>>,  \* できるように
      <<12394, 12428, 12400, 12356, 12356>>,  \* なればいい
      <<12394, 12427, 12392, 12356, 12356>>,  \* なるといい
      <<23566, 20837, 12375, 12383, 12356>>,  \* 導入したい
      <<20351, 12356, 12383, 12356>>,  \* 使いたい
      <<23455, 29694, 12375, 12383, 12356>>  \* 実現したい
    >>, patterns |-> <<
      \* (.+?)(?:して|が)(?:ほしい|欲しい|ホシイ)
      <<AnyChars, Alt(<<<<12375, 12390>>, <<12364>>>>), Alt(<<<<12411, 12375, 12356>>, <<27442, 12375, 12356>>, <<12507, 12471, 12452>>>>)>>,
      \* (.+?)(?:があれば|できれば)(?:いい|良い|嬉しい|助かる)
      <<AnyChars, Alt(<<<<12364, 12354, 12428, 12400>>, <<12391, 12365, 12428, 12400>>>>), Alt(<<<<12356, 12356>>, <<33391, 12356>>, <<23305, 12375, 12356>>, <<21161, 12363, 12427>>>>)>>,
      \* (.+?)(?:を|が)(?:効率化|自動化|改善)(?:したい|してほしい)
      <<AnyChars, Alt(<<<<12434>>, <<12364>>>>), Alt(<<<<21177, 29575, 21270>>, <<33258, 21205, 21270>>, <<25913, 21892>>>>), Alt(<<<<12375, 12383, 12356>>, <<12375, 12390, 12411, 12375, 12356>>>>)>>,
      \* (.+?)(?:を|が)(?:導入|実現)(?:したい|してほしい)
      <<AnyChars, Alt(<<<<12434>>, <<12364>>>>), Alt(<<<<23566, 20837>>, <<23455, 29694>>>>), Alt(<<<<12375, 12383, 12356>>, <<12375, 12390, 12411, 12375, 12356>>>>)>>
    >>],
    O |-> [keywords |-> <<
      <<21453, 23550>>,  \* 反対
      <<25269, 25239>>,  \* 抵抗
      <<28961, 29702>>,  \* 無理
      <<12420, 12426, 12383, 12367, 12394, 12356>>,  \* やりたくない
      <<21069, 12418, 12480, 12513, 12384, 12387, 12383>>,  \* 前もダメだった
      <<22833, 25943, 12375, 12383>>,  \* 失敗した
      <<12358, 12414, 12367, 12356, 12363, 12394, 12363, 12387, 12383>>,  \* うまくいかなかった
      <<23244>>,  \* 嫌
      <<38754, 20498>>,  \* 面倒
      <<12473, 12488, 12524, 12473>>,  \* ストレス
      <<23550, 31435>>,  \* 対立
      <<34909, 31361>>,  \* 衝突
      <<12420, 12425, 12373, 12428>>,  \* やらされ
      <<24375, 21046>>,  \* 強制
      <<32013, 24471, 12391, 12365, 12394, 12356>>,  \* 納得できない
      <<29702, 35299, 12373, 12428, 12394, 12356>>,  \* 理解されない
      <<21332, 21147, 12375, 12390, 12367, 12428, 12394, 12356>>,  \* 協力してくれない
      <<25276, 12375, 20184, 12369>>  \* 押し付け
    >>, patterns |-> <<
      \* (?:前|以前|過去)(?:に|も)(.+?)(?:が|で)(?:失敗|ダメ|うまくいかなかった)
      <<Alt(<<<<21069>>, <<20197, 21069>>, <<36942, 21435>>>>), Alt(<<<<12395>>, <<12418>>>>), AnyChars, Alt(<<<<12364>>, <<12391>>>>), Alt(<<<<22833, 25943>>, <<12480, 12513>>, <<12358, 12414, 12367, 12356, 12363, 12394, 12363, 12387, 12383>>>>)>>,
      \* (.+?)(?:に|は)(?:反対|抵抗)(?:がある|している)
      <<AnyChars, Alt(<<<<12395>>, <<12399>>>>), Alt(<<<<21453, 23550>>, <<25269, 25239>>>>), Alt(<<<<12364, 12354, 12427>>, <<12375, 12390, 12356, 12427>>>>)>>,
      \* (.+?)(?:を|は)(?:やりたくない|したくない)
      <<AnyChars, Alt(<<<<12434>>, <<12399>>>>), Alt(<<<<12420, 12426, 12383, 12367, 12394, 12356>>, <<12375, 12383, 12367, 12394, 12356>>>>)>>,
      \* (.+?)(?:が|は)(?:納得できない|理解できない)
      <<AnyChars, Alt(<<<<12364>>, <<12399>>>>), Alt(<<<<32013, 24471, 12391, 12365, 12394, 12356>>, <<29702, 35299, 12391, 12365, 12394, 12356>>>>)>>
    >>],
    T |-> [keywords |-> <<
      <<12358, 12414, 12367, 12356, 12387, 12390, 12356, 12427>>,  \* うまくいっている
      <<25104, 21151>>,  \* 成功
      <<38918, 35519>>,  \* 順調
      <<21839, 38988, 12394, 12356>>,  \* 問題ない
      <<28288, 36275>>,  \* 満足
      <<33391, 12356>>,  \* 良い
      <<20415, 21033>>,  \* 便利
      <<21161, 12363, 12387, 12390, 12356, 12427>>,  \* 助かっている
      <<21177, 29575, 30340>>,  \* 効率的
      <<24375, 12415>>,  \* 強み
      <<24471, 24847>>,  \* 得意
      <<23450, 30528>>,  \* 定着
      <<22238, 12387, 12390, 12356, 12427>>,  \* 回っている
      <<27231, 33021, 12375, 12390, 12356, 12427>>,  \* 機能している
      <<27671, 12395, 20837, 12387, 12390, 12356, 12427>>,  \* 気に入っている
      <<20351, 12356, 12420, 12377, 12356>>,  \* 使いやすい
      <<12473, 12512, 12540, 12474>>,  \* スムーズ
      <<12358, 12414, 12367>>,  \* うまく
      <<12385, 12419, 12435, 12392>>,  \* ちゃんと
      <<12375, 12387, 12363, 12426>>,  \* しっかり
      <<24555, 36969>>  \* 快適
    >>, patterns |-> <<
      \* (.+?)(?:は|が)(?:うまくいっている|順調|成功)
      <<AnyChars, Alt(<<<<12399>>, <<12364>>>>), Alt(<<<<12358, 12414, 12367, 12356, 12387, 12390, 12356, 12427>>, <<38918, 35519>>, <<25104, 21151>>>>)>>,
      \* (.+?)(?:に|は)(?:満足|問題ない)
      <<AnyChars, Alt(<<<<12395>>, <<12399>>>>), Alt(<<<<28288, 36275>>, <<21839, 38988, 12394, 12356>>>>)>>,
      \* (.+?)(?:は|が)(?:便利|助かっている|効率的)
      <<AnyChars, Alt(<<<<12399>>, <<12364>>>>), Alt(<<<<20415, 21033>>, <<21161, 12363, 12387, 12390, 12356, 12427>>, <<21177, 29575, 30340>>>>)>>,
      \* (.+?)(?:は|が)(?:強み|得意|定着している)
      <<AnyChars, Alt(<<<<12399>>, <<12364>>>>), Alt(<<<<24375, 12415>>, <<24471, 24847>>, <<23450, 30528, 12375, 12390, 12356, 12427>>>>)>>,
      \* (.+?)(?:は|が)(?:うまく|ちゃんと)(?:回っている|機能している)
      <<AnyChars, Alt(<<<<12399>>, <<12364>>>>), Alt(<<<<12358, 12414, 12367>>, <<12385, 12419, 12435, 12392>>>>), Alt(<<<<22238, 12387, 12390, 12356, 12427>>, <<27231, 33021, 12375, 12390, 12356, 12427>>>>)>>
    >>]
  ]

(* LAYER_PATTERNS: per layer, the keyword list and the extraction regex list. *)
LAYER_PATTERNS ==
  <<
    [layer |-> "process", keywords |-> <<
      <<31649, 29702>>,  \* 管理
      <<20966, 29702>>,  \* 処理
      <<20316, 26989>>,  \* 作業
      <<26989, 21209>>,  \* 業務
      <<23550, 24540>>,  \* 対応
      <<22577, 21578>>,  \* 報告
      <<30906, 35469>>,  \* 確認
      <<25215, 35469>>,  \* 承認
      <<30003, 35531>>,  \* 申請
      <<30330, 27880>>,  \* 発注
      <<21463, 27880>>,  \* 受注
      <<35531, 27714>>,  \* 請求
      <<20837, 21147>>,  \* 入力
      <<20986, 21147>>,  \* 出力
      <<38598, 35336>>,  \* 集計
      <<20998, 26512>>,  \* 分析
      <<26908, 26619>>,  \* 検査
      <<28857, 26908>>,  \* 点検
      <<26842, 21368>>,  \* 棚卸
      <<22312, 24235>>,  \* 在庫
      <<20986, 33655>>,  \* 出荷
      <<37197, 36865>>,  \* 配送
      <<20181, 20837>>,  \* 仕入
      <<35519, 36948>>,  \* 調達
      <<25505, 29992>>,  \* 採用
      <<35413, 20385>>,  \* 評価
      <<25945, 32946>>,  \* 教育
      <<30740, 20462>>,  \* 研修
      <<21220, 24608>>,  \* 勤怠
      <<32102, 19982>>  \* 給与
    >>, extraction_patterns |-> <<
      \* (.{2,15}管理)
      Span(2, 15, <<31649, 29702>>),
      \* (.{2,15}処理)
      Span(2, 15, <<20966, 29702>>),
      \* (.{2,10}業務)
      Span(2, 10, <<26989, 21209>>),
      \* (.{2,10}作業)
      Span(2, 10, <<20316, 26989>>)
    >>],
    [layer |-> "tool", keywords |-> <<
      <<69, 120, 99, 101, 108>>,  \* Excel
      <<12456, 12463, 12475, 12523>>,  \* エクセル
      <<87, 111, 114, 100>>,  \* Word
      <<12527, 12540, 12489>>,  \* ワード
      <<80, 111, 119, 101, 114, 80, 111, 105, 110, 116>>,  \* PowerPoint
      <<12497, 12527, 12509>>,  \* パワポ
      <<12513, 12540, 12523>>,  \* メール
      <<83, 108, 97, 99, 107>>,  \* Slack
      <<84, 101, 97, 109, 115>>,  \* Teams
      <<90, 111, 111, 109>>,  \* Zoom
      <<76, 73, 78, 69>>,  \* LINE
      <<12481, 12515, 12483, 12488>>,  \* チャット
      <<12471, 12473, 12486, 12512>>,  \* システム
      <<12477, 12501, 12488>>,  \* ソフト
      <<12450, 12503, 12522>>,  \* アプリ
      <<12484, 12540, 12523>>,  \* ツール
      <<32025>>,  \* 紙
      <<24115, 31080>>,  \* 帳票
      <<20253, 31080>>,  \* 伝票
      <<70, 65, 88>>,  \* FAX
      <<38651, 35441>>,  \* 電話
      <<22522, 24185>>,  \* 基幹
      <<69, 82, 80>>,  \* ERP
      <<67, 82, 77>>,  \* CRM
      <<83, 70, 65>>,  \* SFA
      <<66, 73, 12484, 12540, 12523>>,  \* BIツール
      <<12473, 12503, 12524, 12483, 12489, 12471, 12540, 12488>>,  \* スプレッドシート
      <<71, 111, 111, 103, 108, 101, 12473, 12503, 12524, 12483, 12489, 12471, 12540, 12488>>,  \* Googleスプレッドシート
      <<107, 105, 110, 116, 111, 110, 101>>,  \* kintone
      <<12461, 12531, 12488, 12540, 12531>>,  \* キントーン
      <<83, 97, 108, 101, 115, 102, 111, 114, 99, 101>>,  \* Salesforce
      <<83, 65, 80>>  \* SAP
    >>, extraction_patterns |-> <<
      \* (Excel|エクセル|Word|ワード|PowerPoint|パワポ)
      Group(<<<<69, 120, 99, 101, 108>>, <<12456, 12463, 12475, 12523>>, <<87, 111, 114, 100>>, <<12527, 12540, 12489>>, <<80, 111, 119, 101, 114, 80, 111, 105, 110, 116>>, <<12497, 12527, 12509>>>>),
      \* (Slack|Teams|Zoom|LINE|メール)
      Group(<<<<83, 108, 97, 99, 107>>, <<84, 101, 97, 109, 115>>, <<90, 111, 111, 109>>, <<76, 73, 78, 69>>, <<12513, 12540, 12523>>>>),
      \* (.{2,10}システム)
      Span(2, 10, <<12471, 12473, 12486, 12512>>),
      \* (紙|帳票|伝票|FAX|電話)
      Group(<<<<32025>>, <<24115, 31080>>, <<20253, 31080>>, <<70, 65, 88>>, <<38651, 35441>>>>)
    >>],
    [layer |-> "people", keywords |-> <<
      <<25285, 24403>>,  \* 担当
      <<25285, 24403, 32773>>,  \* 担当者
      <<36012, 20219, 32773>>,  \* 責任者
      <<12510, 12493, 12540, 12472, 12515, 12540>>,  \* マネージャー
      <<12522, 12540, 12480, 12540>>,  \* リーダー
      <<37096, 38263>>,  \* 部長
      <<35506, 38263>>,  \* 課長
      <<20418, 38263>>,  \* 係長
      <<31038, 38263>>,  \* 社長
      <<24441, 21729>>,  \* 役員
      <<32076, 21942>>,  \* 経営
      <<21942, 26989>>,  \* 営業
      <<32076, 29702>>,  \* 経理
      <<32207, 21209>>,  \* 総務
      <<20154, 20107>>,  \* 人事
      <<38283, 30330>>,  \* 開発
      <<29694, 22580>>,  \* 現場
      <<37096, 32626>>,  \* 部署
      <<12481, 12540, 12512>>,  \* チーム
      <<12464, 12523, 12540, 12503>>,  \* グループ
      <<22806, 27880>>,  \* 外注
      <<21332, 21147, 20250, 31038>>,  \* 協力会社
      <<26032, 20154>>,  \* 新人
      <<12505, 12486, 12521, 12531>>,  \* ベテラン
      <<12497, 12540, 12488>>,  \* パート
      <<27966, 36963>>,  \* 派遣
      <<12450, 12523, 12496, 12452, 12488>>,  \* アルバイト
      <<19978, 21496>>,  \* 上司
      <<37096, 19979>>,  \* 部下
      <<21516, 20698>>,  \* 同僚
      <<24460, 36649>>,  \* 後輩
      <<20808, 36649>>  \* 先輩
    >>, extraction_patterns |-> <<
      \* (.{2,10}部)
      Span(2, 10, <<37096>>),
      \* (.{2,10}課)
      Span(2, 10, <<35506>>),
      \* (担当者?|責任者|マネージャー|リーダー)
      Group(<<<<25285, 24403, 32773>>, <<25285, 24403>>, <<36012, 20219, 32773>>, <<12510, 12493, 12540, 12472, 12515, 12540>>, <<12522, 12540, 12480, 12540>>>>),
      \* (外注|協力会社|パート|派遣)
      Group(<<<<22806, 27880>>, <<21332, 21147, 20250, 31038>>, <<12497, 12540, 12488>>, <<27966, 36963>>>>)
    >>]
  >>

(* Rounding of base_score * degree_factor * certainty in IEEE-754 double arithmetic:
   <<|base_score|, degree_factor in tenths, certainty in tenths>> |-> the distance, in units
   in the last place, of the product from the double nearest to the decimal value.
   Operands that are not listed give the nearest double (distance 0). *)
IntensityRounding ==
  (<<1, 4, 4>> :> 1) @@
  (<<1, 4, 8>> :> 1) @@
  (<<1, 4, 9>> :> 1) @@
  (<<1, 7, 4>> :> -1) @@
  (<<1, 7, 8>> :> -1) @@
  (<<1, 13, 9>> :> 1) @@
  (<<1, 15, 4>> :> 1) @@
  (<<1, 15, 6>> :> -1) @@
  (<<1, 15, 8>> :> 1) @@
  (<<2, 4, 4>> :> 1) @@
  (<<2, 4, 8>> :> 1) @@
  (<<2, 4, 9>> :> 1) @@
  (<<2, 7, 4>> :> -1) @@
  (<<2, 7, 8>> :> -1) @@
  (<<2, 13, 9>> :> 1) @@
  (<<2, 15, 4>> :> 1) @@
  (<<2, 15, 6>> :> -1) @@
  (<<2, 15, 8>> :> 1)

(* Rounding of abs(intensity_score) * weight: <<|intensity_score| in hundredths, its
   distance from the nearest double, weight in tenths>> |-> the distance of the product
   from the double nearest to the decimal value. *)
WeightedRounding ==
  (<<16, 1, 8>> :> 1) @@
  (<<16, 1, 10>> :> 1) @@
  (<<16, 1, 12>> :> 1) @@
  (<<16, 1, 15>> :> 2) @@
  (<<16, 1, 18>> :> 2) @@
  (<<16, 1, 20>> :> 1) @@
  (<<28, -1, 8>> :> -1) @@
  (<<28, -1, 10>> :> -1) @@
  (<<28, -1, 12>> :> -1) @@
  (<<28, -1, 15>> :> -1) @@
  (<<28, -1, 20>> :> -1) @@
  (<<32, 1, 8>> :> 1) @@
  (<<32, 1, 10>> :> 1) @@
  (<<32, 1, 12>> :> 1) @@
  (<<32, 1, 15>> :> 2) @@
  (<<32, 1, 18>> :> 2) @@
  (<<32, 1, 20>> :> 1) @@
  (<<36, 1, 8>> :> 1) @@
  (<<36, 1, 10>> :> 1) @@
  (<<36, 1, 12>> :> 1) @@
  (<<36, 1, 18>> :> 1) @@
  (<<36, 1, 20>> :> 1) @@
  (<<40, 0, 8>> :> 1) @@
  (<<40, 0, 15>> :> 1) @@
  (<<40, 0, 18>> :> 1) @@
  (<<52, 0, 8>> :> 1) @@
  (<<56, -1, 8>> :> -1) @@
  (<<56, -1, 10>> :> -1) @@
  (<<56, -1, 12>> :> -1) @@
  (<<56, -1, 15>> :> -1) @@
  (<<56, -1, 20>> :> -1) @@
  (<<60, 0, 15>> :> -1) @@
  (<<60, 1, 8>> :> 2) @@
  (<<60, 1, 10>> :> 1) @@
  (<<60, 1, 12>> :> 1) @@
  (<<60, 1, 15>> :> 1) @@
  (<<60, 1, 18>> :> 1) @@
  (<<60, 1, 20>> :> 1) @@
  (<<63, 0, 15>> :> 1) @@
  (<<63, 0, 18>> :> 1) @@
  (<<64, 1, 8>> :> 1) @@
  (<<64, 1, 10>> :> 1) @@
  (<<64, 1, 12>> :> 1) @@
  (<<64, 1, 15>> :> 2) @@
  (<<64, 1, 18>> :> 2) @@
  (<<64, 1, 20>> :> 1) @@
  (<<70, 0, 8>> :> -1) @@
  (<<70, 0, 15>> :> -1) @@
  (<<72, 1, 8>> :> 1) @@
  (<<72, 1, 10>> :> 1) @@
  (<<72, 1, 12>> :> 1) @@
  (<<72, 1, 18>> :> 1) @@
  (<<72, 1, 20>> :> 1) @@
  (<<78, 0, 8>> :> 1) @@
  (<<78, 0, 12>> :> -1) @@
  (<<78, 0, 18>> :> 1) @@
  (<<80, 0, 8>> :> 1) @@
  (<<80, 0, 15>> :> 1) @@
  (<<80, 0, 18>> :> 1) @@
  (<<90, -1, 10>> :> -1) @@
  (<<90, -1, 12>> :> -1) @@
  (<<90, -1, 15>> :> -1) @@
  (<<90, -1, 18>> :> -1) @@
  (<<90, -1, 20>> :> -1) @@
  (<<90, 0, 8>> :> 1) @@
  (<<104, 0, 8>> :> 1) @@
  (<<112, -1, 8>> :> -1) @@
  (<<112, -1, 10>> :> -1) @@
  (<<112, -1, 12>> :> -1) @@
  (<<112, -1, 15>> :> -1) @@
  (<<112, -1, 20>> :> -1) @@
  (<<117, 1, 8>> :> 1) @@
  (<<117, 1, 10>> :> 1) @@
  (<<117, 1, 12>> :> 1) @@
  (<<117, 1, 15>> :> 2) @@
  (<<117, 1, 18>> :> 1) @@
  (<<117, 1, 20>> :> 1) @@
  (<<120, 0, 15>> :> -1) @@
  (<<120, 1, 8>> :> 2) @@
  (<<120, 1, 10>> :> 1) @@
  (<<120, 1, 12>> :> 1) @@
  (<<120, 1, 15>> :> 1) @@
  (<<120, 1, 18>> :> 1) @@
  (<<120, 1, 20>> :> 1) @@
  (<<126, 0, 15>> :> 1) @@
  (<<126, 0, 18>> :> 1) @@
  (<<130, 0, 15>> :> 1) @@
  (<<130, 0, 18>> :> 1) @@
  (<<135, 0, 15>> :> 1) @@
  (<<140, 0, 8>> :> -1) @@
  (<<140, 0, 15>> :> -1) @@
  (<<150, 0, 8>> :> 1) @@
  (<<150, 0, 12>> :> -1) @@
  (<<156, 0, 8>> :> 1) @@
  (<<156, 0, 12>> :> -1) @@
  (<<156, 0, 18>> :> 1) @@
  (<<160, 0, 8>> :> 1) @@
  (<<160, 0, 15>> :> 1) @@
  (<<160, 0, 18>> :> 1) @@
  (<<180, -1, 10>> :> -1) @@
  (<<180, -1, 12>> :> -1) @@
  (<<180, -1, 15>> :> -1) @@
  (<<180, -1, 18>> :> -1) @@
  (<<180, -1, 20>> :> -1) @@
  (<<180, 0, 8>> :> 1) @@
  (<<208, 0, 8>> :> 1) @@
  (<<234, 1, 8>> :> 1) @@
  (<<234, 1, 10>> :> 1) @@
  (<<234, 1, 12>> :> 1) @@
  (<<234, 1, 15>> :> 2) @@
  (<<234, 1, 18>> :> 1) @@
  (<<234, 1, 20>> :> 1) @@
  (<<240, 1, 8>> :> 2) @@
  (<<240, 1, 10>> :> 1) @@
  (<<240, 1, 12>> :> 1) @@
  (<<240, 1, 15>> :> 1) @@
  (<<240, 1, 18>> :> 1) @@
  (<<240, 1, 20>> :> 1) @@
  (<<260, 0, 15>> :> 1) @@
  (<<260, 0, 18>> :> 1) @@
  (<<270, 0, 15>> :> 1) @@
  (<<300, 0, 8>> :> 1) @@
  (<<300, 0, 12>> :> -1)

(***************************************************************************)
(* String primitives.                                                      *)
(***************************************************************************)
NL == 10

Min(a, b) == IF a < b THEN a ELSE b

Abs(n) == IF n < 0 THEN -n ELSE n

\* the rounding of a float product whose operands are listed in table (0 when not listed)
RoundingOf(table, operands) == IF operands \in DOMAIN table THEN table[operands] ELSE 0

\* text[i:].startswith(w)
StartsWithAt(text, w, i) ==
  /\ i + Len(w) - 1 <= Len(text)
  /\ \A j \in 1..Len(w) : text[i + j - 1] = w[j]

\* Python's  w in text
Contains(text, w) == \E i \in 1..(Len(text) - Len(w) + 1) : StartsWithAt(text, w, i)

(* re: the elements k.. of pat match text from position i on.  "." does not
   match a line break; "$" matches at the end of the text and before a line
   break that ends the text. *)
RECURSIVE MatchAt(_, _, _, _)
RECURSIVE MatchAny(_, _, _, _)
MatchAt(pat, k, text, i) ==
  IF k > Len(pat) THEN TRUE
  ELSE LET e == pat[k] IN
    CASE e.t = "any" -> MatchAny(pat, k, text, i)
      [] e.t = "end" -> /\ (i = Len(text) + 1) \/ (i = Len(text) /\ text[i] = NL)
                        /\ MatchAt(pat, k + 1, text, i)
      [] OTHER -> \E a \in DOMAIN e.alts :
                     /\ StartsWithAt(text, e.alts[a], i)
                     /\ MatchAt(pat, k + 1, text, i + Len(e.alts[a]))

MatchAny(pat, k, text, i) ==
  /\ i <= Len(text)
  /\ text[i] # NL
  /\ \/ MatchAt(pat, k + 1, text, i + 1)
     \/ MatchAny(pat, k, text, i + 1)

(* pattern.search(text) is not None.  When the pattern starts with (.+?), a match
   that starts earlier also matches with the group holding just the one character
   before the rest, so only that one-character choice is tried at each position. *)
Search(pat, text) ==
  IF pat[1].t = "any"
  THEN \E i \in 1..Len(text) : text[i] # NL /\ MatchAt(pat, 2, text, i + 1)
  ELSE \E i \in 1..(Len(text) + 1) : MatchAt(pat, 1, text, i)

(***************************************************************************)
(* The inverted tables VERB_TO_CATEGORY, ADJECTIVE_TO_SENTIMENT and        *)
(* ADVERB_TO_DEGREE are Python dicts filled by "d[word] = key" in table    *)
(* order.  A dict is a sequence of entries in insertion order; assigning   *)
(* to a key that is already present replaces the value and keeps the       *)
(* entry's position.                                                       *)
(***************************************************************************)
\* for word in words: d[word] = key
DictPutAll(d, words, key) ==
  LET updated == [i \in DOMAIN d |->
                    IF \E j \in DOMAIN words : words[j] = d[i].key
                    THEN [key |-> d[i].key, value |-> key] ELSE d[i]]
      isNew(j) == /\ \A i \in DOMAIN d : d[i].key # words[j]
                  /\ \A h \in 1..(j - 1) : words[h] # words[j]
      fresh == SelectSeq([j \in DOMAIN words |-> [idx |-> j, key |-> words[j], value |-> key]],
                         LAMBDA e : isNew(e.idx))
  IN updated \o [j \in DOMAIN fresh |-> [key |-> fresh[j].key, value |-> fresh[j].value]]

\* for key, words in table.items(): for word in words: d[word] = key
RECURSIVE InvertInto(_, _, _)
InvertInto(d, table, c) ==
  IF c > Len(table) THEN d
  ELSE InvertInto(DictPutAll(d, table[c].words, table[c].key), table, c + 1)

VERB_TO_CATEGORY == InvertInto(<<>>, VERB_CATEGORY_DICT, 1)

ADJECTIVE_TO_SENTIMENT == InvertInto(<<>>, ADJECTIVE_SENTIMENT_DICT, 1)

ADVERB_TO_DEGREE == InvertInto(<<>>, DEGREE_ADVERBS, 1)

(***************************************************************************)
(* The word lists of _detect_temperature.                                  *)
(***************************************************************************)
high_indicators ==
  <<<<32118, 23550>>, <<26412, 24403, 12395>>, <<38750, 24120, 12395>>, <<12392, 12390, 12418>>, <<12377, 12372, 12367>>,
    <<12417, 12385, 12419, 12367, 12385, 12419>>, <<12356, 12388, 12418>>, <<27598, 22238>>, <<24517, 12378>>>>

medium_indicators == <<<<12363, 12394, 12426>>, <<32080, 27083>>, <<12431, 12426, 12392>>, <<26178, 12293>>, <<12383, 12414, 12395>>, <<12424, 12367>>>>

low_indicators == <<<<23569, 12375>>, <<12385, 12423, 12387, 12392>>, <<22810, 23569>>, <<33509, 24178>>, <<12383, 12406, 12435>>, <<12362, 12381, 12425, 12367>>>>

(***************************************************************************)
(* Every test "word in text" of the engine is against a word of the rule   *)
(* tables.  WordsIn(text) is the set of the table words w with  w in text, *)
(* found by looking, at each position of the text, at the table words that *)
(* start with the character there.                                         *)
(***************************************************************************)
Range(f) == {f[i] : i \in DOMAIN f}

Vocabulary ==
  UNION ( {Range(VERB_CATEGORY_DICT[c].words) : c \in DOMAIN VERB_CATEGORY_DICT}
          \cup {Range(ADJECTIVE_SENTIMENT_DICT[c].words) : c \in DOMAIN ADJECTIVE_SENTIMENT_DICT}
          \cup {Range(DEGREE_ADVERBS[c].words) : c \in DOMAIN DEGREE_ADVERBS}
          \cup {Range(PIVOT_KEYWORDS[p].keywords) : p \in DOMAIN PIVOT_KEYWORDS}
          \cup {Range(LAYER_PATTERNS[l].keywords) : l \in DOMAIN LAYER_PATTERNS}
          \cup {Range(high_indicators), Range(medium_indicators), Range(low_indicators)} )

IndexByFirst(words) == [c \in {w[1] : w \in words} |-> {w \in words : w[1] = c}]

WordsByFirst == IndexByFirst(Vocabulary)

WordsAt(text, index) ==
  UNION { IF text[i] \in DOMAIN index
          THEN {w \in index[text[i]] : StartsWithAt(text, w, i)}
          ELSE {} : i \in DOMAIN text }

WordsIn(text) == WordsAt(text, WordsByFirst)

(***************************************************************************)
(* MorphologyAnalyzer.analyze                                              *)
(***************************************************************************)
\* the matches collected from the last dict entry to the first
MatchedEntries_reversed(dict, occ) ==
  LET m == SelectSeq(dict, LAMBDA e : e.key \in occ)
  IN [i \in DOMAIN m |-> m[Len(m) + 1 - i]]

\* the entries of dict whose key occurs in the text (occ = WordsIn(text)), in dict order
MatchedEntries(dict, occ) == SelectSeq(dict, LAMBDA e : e.key \in occ)

CountOf(entries, v) == Len(SelectSeq(entries, LAMBDA e : e.value = v))

\* a loop in which an attenuating factor replaces whatever was found before it
RECURSIVE MaxDegree_lastWins(_, _, _)
MaxDegree_lastWins(advs, i, max_degree) ==
  IF i > Len(advs) THEN max_degree
  ELSE LET factor == advs[i].value IN
    MaxDegree_lastWins(advs, i + 1,
                       IF factor > max_degree THEN factor
                       ELSE IF factor < 10 THEN factor
                       ELSE max_degree)

RECURSIVE MaxDegree(_, _, _)
MaxDegree(advs, i, max_degree) ==
  IF i > Len(advs) THEN max_degree
  ELSE LET factor == advs[i].value IN
    MaxDegree(advs, i + 1,
              IF factor > max_degree THEN factor
              ELSE IF factor < 10 /\ max_degree = 10 THEN factor
              ELSE max_degree)

\* a loop without the break: the last pattern that matches decides
RECURSIVE FirstTail_lastMatch(_, _)
FirstTail_lastMatch(text, i) ==
  IF i > Len(TAIL_PATTERNS) THEN [certainty |-> 10, pivot_tendency |-> "None"]
  ELSE LET later == FirstTail_lastMatch(text, i + 1) IN
       IF later.pivot_tendency = "None" /\ Search(TAIL_PATTERNS[i].pattern, text)
       THEN [certainty |-> TAIL_PATTERNS[i].certainty, pivot_tendency |-> TAIL_PATTERNS[i].tendency]
       ELSE later

RECURSIVE FirstTail(_, _)
FirstTail(text, i) ==
  IF i > Len(TAIL_PATTERNS) THEN [certainty |-> 10, pivot_tendency |-> "None"]
  ELSE IF Search(TAIL_PATTERNS[i].pattern, text)
       THEN [certainty |-> TAIL_PATTERNS[i].certainty, pivot_tendency |-> TAIL_PATTERNS[i].tendency]
       ELSE FirstTail(text, i + 1)

\* the MorphologyResult filled from the matched verbs, adjectives, adverbs and the tail
MorphologyResult(verbs, adjs, advs, positive_count, negative_count, anxiety_count, tail) ==
  [verb_categories |-> [i \in DOMAIN verbs |-> verbs[i].value],
   sentiment_num |-> IF positive_count + negative_count + anxiety_count > 0
                     THEN positive_count - negative_count - anxiety_count ELSE 0,
   sentiment_den |-> IF positive_count + negative_count + anxiety_count > 0
                     THEN positive_count + negative_count + anxiety_count ELSE 1,
   degree_factor |-> MaxDegree(advs, 1, 10),
   certainty |-> tail.certainty,
   pivot_tendency |-> tail.pivot_tendency,
   matched_verbs |-> [i \in DOMAIN verbs |-> verbs[i].key],
   matched_adjectives |-> [i \in DOMAIN adjs |-> adjs[i].key],
   matched_adverbs |-> [i \in DOMAIN advs |-> advs[i].key]]

\* the adjective part of analyze: the three counters over the matched adjectives
WithAdjectives(verbs, adjs, advs, tail) ==
  MorphologyResult(verbs, adjs, advs,
                   CountOf(adjs, "POSITIVE"), CountOf(adjs, "NEGATIVE"), CountOf(adjs, "ANXIETY"),
                   tail)

\* analyze, given the table words that occur in the text
AnalyzeWords(text, occ) ==
  WithAdjectives(MatchedEntries(VERB_TO_CATEGORY, occ),
                 MatchedEntries(ADJECTIVE_TO_SENTIMENT, occ),
                 MatchedEntries(ADVERB_TO_DEGREE, occ),
                 FirstTail(text, 1))

Analyze(text) == AnalyzeWords(text, WordsIn(text))

(***************************************************************************)
(* PIVOTAnalyzer._infer_pivot_from_morphology                              *)
(***************************************************************************)
\* VerbCategory.value, written in Latin letters
CatValue ==
  [OBSTACLE |-> "shougai-kei", DIFFICULTY |-> "konnan-kei", LOSS |-> "soushitsu-kei",
   DESIRE |-> "ganbou-kei", REJECTION |-> "kyohi-kei", SUCCESS |-> "seikou-kei"]

Inference(pivot, conf, reason) == [pivot |-> pivot, conf |-> conf, reason |-> reason]

NoInference == Inference("None", 0, <<>>)

\* the loop "for cat in morph.verb_categories", from index i on
RECURSIVE VerbRules(_, _)
VerbRules(morph, i) ==
  IF i > Len(morph.verb_categories) THEN NoInference
  ELSE LET cat == morph.verb_categories[i] IN
    IF cat \notin DOMAIN VERB_CATEGORY_TO_PIVOT THEN VerbRules(morph, i + 1)
    ELSE IF cat = "OBSTACLE" \/ cat = "DIFFICULTY"
      THEN IF morph.sentiment_num < 0 /\ morph.certainty >= 9
           THEN Inference("P", 90, <<CatValue[cat], "verb+negative adjective+high certainty">>)
           ELSE VerbRules(morph, i + 1)
    ELSE IF cat = "LOSS" THEN Inference("I", 85, <<CatValue[cat], "verb">>)
    ELSE IF cat = "DESIRE" THEN Inference("V", 85, <<CatValue[cat], "verb">>)
    ELSE IF cat = "REJECTION" THEN Inference("O", 85, <<CatValue[cat], "verb">>)
    ELSE IF cat = "SUCCESS"
      THEN IF morph.sentiment_num > 0
           THEN Inference("T", 90, <<CatValue[cat], "verb+positive adjective">>)
           ELSE Inference("T", 70, <<CatValue[cat], "verb">>)
    ELSE VerbRules(morph, i + 1)

\* the tail rules and the adjective-only rules (sentiment < -0.5, sentiment > 0.5)
TailAndAdjectiveRules(morph) ==
  IF morph.pivot_tendency # "None" /\ morph.certainty <= 6 /\ morph.pivot_tendency = "I"
    THEN Inference("I", 75, <<"speculative/hearsay tail">>)
  ELSE IF morph.pivot_tendency # "None" /\ morph.pivot_tendency = "V"
    THEN Inference("V", 80, <<"desiderative tail">>)
  ELSE IF morph.pivot_tendency # "None" /\ morph.pivot_tendency = "O"
    THEN Inference("O", 80, <<"negative desiderative tail">>)
  ELSE IF 2 * morph.sentiment_num < - morph.sentiment_den
    THEN Inference("P", 60, <<"negative adjectives dominate">>)
  ELSE IF 2 * morph.sentiment_num > morph.sentiment_den
    THEN Inference("T", 60, <<"positive adjectives dominate">>)
  ELSE NoInference

InferPivotFromMorphology(morph) ==
  LET byVerb == VerbRules(morph, 1)
  IN IF byVerb.pivot # "None" THEN byVerb ELSE TailAndAdjectiveRules(morph)

(***************************************************************************)
(* PIVOTAnalyzer._classify_pivot                                           *)
(***************************************************************************)
NoPivot == [voice |-> "None", confidence |-> 0, matched_keywords |-> <<>>]

\* an iteration that leaves out the limit of 0.6 on the keyword part
VoiceScore_uncapped(text, occ, pivot) ==
  LET config == PIVOT_KEYWORDS[pivot]
      matched_kw == SelectSeq(config.keywords, LAMBDA kw : kw \in occ)
      pat_score == IF \E p \in DOMAIN config.patterns : Search(config.patterns[p], text)
                   THEN 35 ELSE 0
  IN [voice |-> pivot, confidence |-> Min(Len(matched_kw) * 20 + pat_score, 95), matched_keywords |-> matched_kw]

\* one iteration of "for pivot in PIVOT.ALL"
VoiceScore(text, occ, pivot) ==
  LET config == PIVOT_KEYWORDS[pivot]
      matched_kw == SelectSeq(config.keywords, LAMBDA kw : kw \in occ)
      kw_score == Min(Len(matched_kw) * 20, 60)
      pat_score == IF \E p \in DOMAIN config.patterns : Search(config.patterns[p], text)
                   THEN 35 ELSE 0
  IN [voice |-> pivot, confidence |-> Min(kw_score + pat_score, 95), matched_keywords |-> matched_kw]

\* the last element with the greatest key
RECURSIVE MaxFirst_lastWins(_, _, _)
MaxFirst_lastWins(scores, i, best) ==
  IF i > Len(scores) THEN best
  ELSE MaxFirst_lastWins(scores, i + 1,
                         IF scores[i].confidence >= scores[best].confidence THEN i ELSE best)

\* Python's max(seq, key=...): the first element with the greatest key
RECURSIVE MaxFirst(_, _, _)
MaxFirst(scores, i, best) ==
  IF i > Len(scores) THEN best
  ELSE MaxFirst(scores, i + 1, IF scores[i].confidence > scores[best].confidence THEN i ELSE best)

\* if not scores: return None;  best_pivot = max(scores.keys(), key=...)
BestPivot(scores) == IF scores = <<>> THEN NoPivot ELSE scores[MaxFirst(scores, 2, 1)]

\* the scores dict: the voices with a score above 0, in the order of PIVOT.ALL
Scores(text, occ) ==
  SelectSeq([i \in DOMAIN PIVOT_ALL |-> VoiceScore(text, occ, PIVOT_ALL[i])],
            LAMBDA sc : sc.confidence > 0)

ClassifyPivot(text) == BestPivot(Scores(text, WordsIn(text)))

(***************************************************************************)
(* PIVOTAnalyzer._extract_layers.  An absent value (None) is the empty      *)
(* sequence, a bound one a sequence of one text.                           *)
(***************************************************************************)
\* the lengths n for which pat = (.{min,max}lit) matches text from position s on
SpanLengths(pat, text, s) ==
  {n \in pat.min..pat.max :
     /\ s + n - 1 <= Len(text)
     /\ \A j \in s..(s + n - 1) : text[j] # NL
     /\ StartsWithAt(text, pat.alts[1], s + n)}

\* the alternatives of pat = (a|b|c) that match text at position s
GroupAlts(pat, text, s) == {a \in DOMAIN pat.alts : StartsWithAt(text, pat.alts[a], s)}

MatchesFrom(pat, text, s) ==
  IF pat.t = "span" THEN SpanLengths(pat, text, s) # {} ELSE GroupAlts(pat, text, s) # {}

Greatest(S) == CHOOSE n \in S : \A m \in S : m <= n

Least(S) == CHOOSE n \in S : \A m \in S : n <= m

\* the text matched from position s: the longest span (the quantifier is greedy),
\* the first alternative that matches
GroupAt(pat, text, s) ==
  IF pat.t = "span"
  THEN SubSeq(text, s, s + Greatest(SpanLengths(pat, text, s)) + Len(pat.alts[1]) - 1)
  ELSE pat.alts[Least(GroupAlts(pat, text, s))]

\* pattern.search(text): None, or match.group(1) of the leftmost match
SearchGroup(pat, text) ==
  IF \E s \in 1..Len(text) : MatchesFrom(pat, text, s)
  THEN <<GroupAt(pat, text, Least({s \in 1..Len(text) : MatchesFrom(pat, text, s)}))>>
  ELSE <<>>

\* the loop over self.layer_extraction_patterns[layer], from index i on
OrElse(match, rest) == IF match # <<>> THEN match ELSE rest

RECURSIVE FirstGroup(_, _, _)
FirstGroup(patterns, text, i) ==
  IF i > Len(patterns) THEN <<>>
  ELSE OrElse(SearchGroup(patterns[i], text), FirstGroup(patterns, text, i + 1))

\* a binding that takes the keyword also when a pattern has matched
BoundTo_keyword(group, kw) == <<kw>>

\* the value bound to a layer whose keyword kw was found first: the first pattern's
\* group, or else the keyword itself
BoundTo(group, kw) == IF group # <<>> THEN group ELSE <<kw>>

\* one iteration of "for layer, config in LAYER_PATTERNS.items()"
LayerValue(config, text, occ) ==
  IF \E k \in DOMAIN config.keywords : config.keywords[k] \in occ
  THEN BoundTo(FirstGroup(config.extraction_patterns, text, 1),
               config.keywords[Least({k \in DOMAIN config.keywords : config.keywords[k] \in occ})])
  ELSE <<>>

LayersOf(text, occ) ==
  [l \in {LAYER_PATTERNS[i].layer : i \in DOMAIN LAYER_PATTERNS} |->
     LayerValue(LAYER_PATTERNS[CHOOSE i \in DOMAIN LAYER_PATTERNS : LAYER_PATTERNS[i].layer = l],
                text, occ)]

ExtractLayers(text) == LayersOf(text, WordsIn(text))

(***************************************************************************)
(* PIVOTAnalyzer._detect_temperature and _truncate                         *)
(***************************************************************************)
\* any(ind in text for ind in indicators)
AnyIn(indicators, occ) == \E i \in DOMAIN indicators : indicators[i] \in occ

Temperature(occ) ==
  IF AnyIn(high_indicators, occ) THEN "high"
  ELSE IF AnyIn(medium_indicators, occ) THEN "medium"
  ELSE IF AnyIn(low_indicators, occ) THEN "low"
  ELSE "medium"

DetectTemperature(text) == Temperature(WordsIn(text))

\* str.strip() removes the characters for which str.isspace() holds
Whitespace ==
  {9, 10, 11, 12, 13, 28, 29, 30, 31, 32, 133, 160, 5760, 8232, 8233, 8239, 8287, 12288}
    \cup (8192..8202)

Strip(text) ==
  LET keep == {i \in DOMAIN text : text[i] \notin Whitespace}
  IN IF keep = {} THEN <<>>
     ELSE LET lo == CHOOSE i \in keep : \A j \in keep : i <= j
              hi == CHOOSE i \in keep : \A j \in keep : j <= i
          IN SubSeq(text, lo, hi)

Truncate(text, max_len) ==
  LET t == Strip([i \in DOMAIN text |-> IF text[i] = NL THEN 32 ELSE text[i]])
  IN IF Len(t) <= max_len THEN t ELSE SubSeq(t, 1, max_len) \o <<46, 46, 46>>

(***************************************************************************)
(* PIVOTAnalyzer._classify_sentence.  The result carries the locals of the *)
(* call next to the returned insight (a sequence of length 0 or 1).        *)
(***************************************************************************)
NoMorphology ==
  [verb_categories |-> <<>>, sentiment_num |-> 0, sentiment_den |-> 1, degree_factor |-> 10,
   certainty |-> 10, pivot_tendency |-> "None", matched_verbs |-> <<>>,
   matched_adjectives |-> <<>>, matched_adverbs |-> <<>>]

KeywordBased == <<"keyword based">>

\* the morphology result is taken only above 0.6
AcceptMorphology_strict(morph_pivot, morph_conf) == morph_pivot # "None" /\ morph_conf > 60

\* if morph_pivot and morph_conf >= 0.6
AcceptMorphology(morph_pivot, morph_conf) == morph_pivot # "None" /\ morph_conf >= 60

\* the certainty is left out of the product
Intensity_noCertainty(base_score, degree_factor, certainty) == base_score * degree_factor * 10

\* intensity_score = base_score * degree_factor * certainty
Intensity(base_score, degree_factor, certainty) == base_score * degree_factor * certainty

\* the locals of one call of _classify_sentence and the insight it returns
Locals(text, morph_ran, morph_result, morph, lexical_ran, pivot_result, insight) ==
  [sentence |-> text, morph_ran |-> morph_ran, morph_result |-> morph_result,
   morph |-> morph, lexical_ran |-> lexical_ran, pivot_result |-> pivot_result,
   insight |-> insight]

\* PIVOTInsight(...) as built at the end of _classify_sentence
NewInsight(text, video_id, pivot_voice, confidence, matched_keywords, degree_factor, certainty, reasoning) ==
  [id |-> <<>>,    \* str(uuid.uuid4()): the value is drawn where the call is made (Issued)
   pivot_voice |-> pivot_voice,
   pivot_label |-> LABELS[pivot_voice],
   pivot_score |-> SCORES[pivot_voice],
   target_layers |-> ExtractLayers(text),
   title |-> Truncate(text, 50),
   body |-> text,
   confidence |-> confidence,
   temperature |-> DetectTemperature(text),
   matched_keywords |-> matched_keywords,
   video_id |-> video_id,
   intensity_score |-> Intensity(SCORES[pivot_voice], degree_factor, certainty),
   intensity_rounding |-> RoundingOf(IntensityRounding,
                                     <<Abs(SCORES[pivot_voice]), degree_factor, certainty>>),
   degree_factor |-> degree_factor,
   certainty |-> certainty,
   reasoning |-> reasoning]

\* the classification that was accepted (the morphology's, or else the lexical one) and
\* the insight built from it; no insight when the lexical classifier returned None
Accepted(text, video_id, morph_ran, morph_result, morph, accept_morph, pivot_result) ==
  Locals(text, morph_ran, morph_result, morph, ~accept_morph, pivot_result,
         IF ~accept_morph /\ pivot_result.voice = "None" THEN <<>>
         ELSE <<NewInsight(text, video_id,
                           IF accept_morph THEN morph.pivot ELSE pivot_result.voice,
                           IF accept_morph THEN morph.conf ELSE pivot_result.confidence,
                           IF accept_morph
                             THEN morph_result.matched_verbs \o morph_result.matched_adjectives
                             ELSE pivot_result.matched_keywords,
                           morph_result.degree_factor,
                           morph_result.certainty,
                           IF accept_morph THEN morph.reason ELSE KeywordBased)>>)

\* the lexical classifier runs when the morphology result is not accepted
Combined(text, video_id, morph_ran, morph_result, morph) ==
  Accepted(text, video_id, morph_ran, morph_result, morph,
           morph_ran /\ AcceptMorphology(morph.pivot, morph.conf),
           IF morph_ran /\ AcceptMorphology(morph.pivot, morph.conf)
           THEN NoPivot ELSE ClassifyPivot(text))

\* the inference from the morphology result, when morphology is enabled
Inferred(text, video_id, morph_ran, morph_result) ==
  Combined(text, video_id, morph_ran, morph_result,
           IF morph_ran THEN InferPivotFromMorphology(morph_result) ELSE NoInference)

ClassifySentence(self, text, video_id) ==
  IF Strip(text) = <<>>
  THEN Locals(text, FALSE, NoMorphology, NoInference, FALSE, NoPivot, <<>>)
  ELSE Inferred(text, video_id, self.use_morphology,
                IF self.use_morphology THEN Analyze(text) ELSE NoMorphology)

(***************************************************************************)
(* PIVOTAnalyzer._split_sentences: re.split(r'[。．！？\n]+', text), then  *)
(* the stripped pieces that are non-empty and at least 10 characters long. *)
(***************************************************************************)
SentenceDelimiters == { 12290, 65294, 65281, 65311, NL }   \* 。 ． ！ ？ \n

MIN_SENTENCE_LEN == 10

\* the stretches come out last first
Stretches_reversed(text) ==
  LET isDelim(i) == text[i] \in SentenceDelimiters
      starts == SelectSeq([i \in DOMAIN text |-> i],
                          LAMBDA i : ~isDelim(i) /\ (i = 1 \/ isDelim(i - 1)))
      endOf(i) == CHOOSE j \in i..Len(text) :
                    /\ \A h \in i..j : ~isDelim(h)
                    /\ (j = Len(text) \/ isDelim(j + 1))
  IN [k \in DOMAIN starts |-> SubSeq(text, starts[Len(starts) + 1 - k], endOf(starts[Len(starts) + 1 - k]))]

\* the maximal delimiter-free stretches of text, in text order
Stretches(text) ==
  LET isDelim(i) == text[i] \in SentenceDelimiters
      starts == SelectSeq([i \in DOMAIN text |-> i],
                          LAMBDA i : ~isDelim(i) /\ (i = 1 \/ isDelim(i - 1)))
      endOf(i) == CHOOSE j \in i..Len(text) :
                    /\ \A h \in i..j : ~isDelim(h)
                    /\ (j = Len(text) \/ isDelim(j + 1))
  IN [k \in DOMAIN starts |-> SubSeq(text, starts[k], endOf(starts[k]))]

SplitSentences(self, text) ==
  IF ~self.split_by_sentence THEN <<text>>
  ELSE LET stripped == [k \in DOMAIN Stretches(text) |-> Strip(Stretches(text)[k])]
       IN SelectSeq(stripped, LAMBDA st : st # <<>> /\ Len(st) >= MIN_SENTENCE_LEN)

(***************************************************************************)
(* PIVOTAnalyzer.__init__ and _apply_domain_weights                        *)
(***************************************************************************)
\* weights in tenths
DOMAIN_PIVOT_WEIGHTS ==
  [requirements   |-> [P |-> 15, I |-> 10, V |-> 20, O |-> 8,  T |-> 10],
   biz_analysis   |-> [P |-> 20, I |-> 12, V |-> 10, O |-> 10, T |-> 15],
   hr_evaluation  |-> [P |-> 10, I |-> 20, V |-> 15, O |-> 18, T |-> 12],
   daily_concerns |-> [P |-> 18, I |-> 20, V |-> 10, O |-> 12, T |-> 10],
   customer_voice |-> [P |-> 18, I |-> 10, V |-> 20, O |-> 12, T |-> 15],
   retrospective  |-> [P |-> 15, I |-> 12, V |-> 15, O |-> 12, T |-> 18]]

NewAnalyzer(domain, min_confidence, use_morphology, split_by_sentence) ==
  [domain |-> domain,
   min_confidence |-> min_confidence,
   use_morphology |-> use_morphology,
   split_by_sentence |-> split_by_sentence,
   weights |-> IF domain \in DOMAIN DOMAIN_PIVOT_WEIGHTS THEN DOMAIN_PIVOT_WEIGHTS[domain]
               ELSE [p \in Range(PIVOT_ALL) |-> 10]]

\* the weight is left out of the key
weighted_score_unweighted(self, item) ==
  [value |-> Abs(item.intensity_score) * 10,
   rounding |-> RoundingOf(WeightedRounding, <<Abs(item.intensity_score), item.intensity_rounding, 10>>)]

(* abs(item.intensity_score) * weight, a float: its decimal value in thousandths and
   the distance of the double from the one nearest to that value.  Doubles compare
   as these pairs do, the value first. *)
weighted_score(self, item) ==
  [value |-> Abs(item.intensity_score) * self.weights[item.pivot_voice],
   rounding |-> RoundingOf(WeightedRounding,
                           <<Abs(item.intensity_score), item.intensity_rounding,
                             self.weights[item.pivot_voice]>>)]

\* a > b for two floats
Greater(a, b) == a.value > b.value \/ (a.value = b.value /\ a.rounding > b.rounding)

\* sorted(items, key=weighted_score, reverse=True): stable, greatest key first
RECURSIVE SortedDesc(_, _)
SortedDesc(self, items) ==
  IF items = <<>> THEN <<>>
  ELSE LET rest == SortedDesc(self, Tail(items))
           head == Head(items)
           \* head goes before the first element of rest with a smaller key,
           \* and in front of the elements with an equal key
           ahead == {k \in DOMAIN rest : Greater(weighted_score(self, rest[k]), weighted_score(self, head))}
           n == Cardinality(ahead)
       IN SubSeq(rest, 1, n) \o <<head>> \o SubSeq(rest, n + 1, Len(rest))

ApplyDomainWeights(self, items) == SortedDesc(self, items)

(***************************************************************************)
(* PIVOTAnalyzer.analyze_video                                             *)
(***************************************************************************)
\* the intensities are summed instead of the base scores
RECURSIVE SumScores_intensity(_)
SumScores_intensity(items) ==
  IF items = <<>> THEN 0 ELSE Head(items).intensity_score + SumScores_intensity(Tail(items))

\* sum(item.pivot_score for item in items)
RECURSIVE SumScores(_)
SumScores(items) == IF items = <<>> THEN 0 ELSE Head(items).pivot_score + SumScores(Tail(items))

\* the per-voice groups and counts are left empty dicts
EmptyResult_noVoices ==
  [items |-> <<>>,
   by_pivot |-> [p \in {} |-> <<>>],
   by_process |-> <<>>,
   by_tool |-> <<>>,
   total_score |-> 0,
   sentiment_index |-> [num |-> 0, den |-> 1],
   stats |-> [total |-> 0, by_pivot |-> [p \in {} |-> 0]]]

\* the result returned for an empty or missing transcript
EmptyResult ==
  [items |-> <<>>,
   by_pivot |-> [p \in Range(PIVOT_ALL) |-> <<>>],
   by_process |-> <<>>,
   by_tool |-> <<>>,
   total_score |-> 0,
   sentiment_index |-> [num |-> 0, den |-> 1],
   stats |-> [total |-> 0, by_pivot |-> [p \in Range(PIVOT_ALL) |-> 0]]]

\* the morphology engine serves the first call only: state that one call leaves to the next
Classified_morphologyOnce(self, video) ==
  LET transcript_text == IF video.has_transcript THEN video.full_text ELSE <<>>
      sentences == IF transcript_text = <<>> THEN <<>> ELSE SplitSentences(self, transcript_text)
  IN [k \in DOMAIN sentences |->
        ClassifySentence([self EXCEPT !.use_morphology = (k = 1 /\ self.use_morphology)],
                         sentences[k], video.video_id)]

\* the calls of the loop "for sentence in sentences", in order
Classified(self, video) ==
  LET transcript_text == IF video.has_transcript THEN video.full_text ELSE <<>>
      sentences == IF transcript_text = <<>> THEN <<>> ELSE SplitSentences(self, transcript_text)
  IN [k \in DOMAIN sentences |-> ClassifySentence(self, sentences[k], video.video_id)]

(* uuid.uuid4() returns values that no input determines: one of UuidRuns sequences
   of values, none occurring twice.  The 32 hexadecimal digits are cut down to two. *)
UuidRuns == {1, 2}

HexDigits == <<48, 49, 50, 51, 52, 53, 54, 55, 56, 57, 97, 98, 99, 100, 101, 102>>

Uuid4(run, k) == <<HexDigits[run + 1], HexDigits[k + 1]>>

\* the calls with the ids that the k-th call's uuid.uuid4() gave to its insight
Issued(cs, run) ==
  [k \in DOMAIN cs |->
     IF cs[k].insight = <<>> THEN cs[k]
     ELSE [cs[k] EXCEPT !.insight = <<[cs[k].insight[1] EXCEPT !.id = Uuid4(run, k)]>>]]

\* the outcomes of the loop, one for each sequence of values of uuid.uuid4()
Outcomes(cs) == {Issued(cs, run) : run \in UuidRuns}

\* every returned insight is kept
Kept_noFloor(self, cs) == SelectSeq(cs, LAMBDA c : c.insight # <<>>)

\* if insight and insight.confidence >= self.min_confidence
Kept(self, cs) ==
  SelectSeq(cs, LAMBDA c : c.insight # <<>> /\ c.insight[1].confidence >= self.min_confidence)

\* the entry of a value is set up anew at every insight bound to it: only the last one is counted
LayerCounts_lastOnly(accepted, layer) ==
  LET bound(k) == accepted[k].target_layers[layer] # <<>>
      value(k) == accepted[k].target_layers[layer][1]
      firsts == SelectSeq([k \in DOMAIN accepted |-> k],
                          LAMBDA k : bound(k) /\ \A h \in 1..(k - 1) : ~(bound(h) /\ value(h) = value(k)))
  IN [e \in DOMAIN firsts |->
        [key |-> value(firsts[e]),
         counts |-> [p \in Range(PIVOT_ALL) |->
                       Cardinality({k \in DOMAIN accepted :
                                      /\ bound(k) /\ value(k) = value(firsts[e])
                                      /\ accepted[k].pivot_voice = p
                                      /\ \A h \in (k + 1)..Len(accepted) : ~(bound(h) /\ value(h) = value(k))})]]]

(* by_process / by_tool: a dict from the value bound to the layer to the number of
   insights per voice, as the sequence of its entries in insertion order (the order
   in which the values first occur among the accepted insights). *)
LayerCounts(accepted, layer) ==
  LET bound(k) == accepted[k].target_layers[layer] # <<>>
      value(k) == accepted[k].target_layers[layer][1]
      firsts == SelectSeq([k \in DOMAIN accepted |-> k],
                          LAMBDA k : bound(k) /\ \A h \in 1..(k - 1) : ~(bound(h) /\ value(h) = value(k)))
  IN [e \in DOMAIN firsts |->
        [key |-> value(firsts[e]),
         counts |-> [p \in Range(PIVOT_ALL) |->
                       Cardinality({k \in DOMAIN accepted :
                                      /\ bound(k) /\ value(k) = value(firsts[e])
                                      /\ accepted[k].pivot_voice = p})]]]

AnalyzeVideo(self, video, cs) ==
  LET transcript_text == IF video.has_transcript THEN video.full_text ELSE <<>>
      kept == Kept(self, cs)
      accepted == [k \in DOMAIN kept |-> kept[k].insight[1]]
      by_pivot == [p \in Range(PIVOT_ALL) |-> SelectSeq(accepted, LAMBDA it : it.pivot_voice = p)]
      items == ApplyDomainWeights(self, accepted)
      total_score == SumScores(items)
  IN IF transcript_text = <<>> THEN EmptyResult
     ELSE [items |-> items,
           by_pivot |-> by_pivot,
           by_process |-> LayerCounts(accepted, "process"),
           by_tool |-> LayerCounts(accepted, "tool"),
           total_score |-> total_score,
           sentiment_index |-> IF items # <<>> THEN [num |-> total_score, den |-> Len(items)]
                               ELSE [num |-> 0, den |-> 1],
           stats |-> [total |-> Len(items),
                      by_pivot |-> [p \in Range(PIVOT_ALL) |-> Len(by_pivot[p])],
                      domain |-> self.domain,
                      total_score |-> total_score,
                      sentiment_index |-> IF items # <<>> THEN [num |-> total_score, den |-> Len(items)]
                                          ELSE [num |-> 0, den |-> 1]]]

\* VideoAnalysisResult.pain_count .. traction_count: len(self.pivot_result.by_pivot.get(p, []))
VoiceCount(pivot_result, p) ==
  IF p \in DOMAIN pivot_result.by_pivot THEN Len(pivot_result.by_pivot[p]) ELSE 0

pain_count(pivot_result) == VoiceCount(pivot_result, "P")

insecurity_count(pivot_result) == VoiceCount(pivot_result, "I")

vision_count(pivot_result) == VoiceCount(pivot_result, "V")

objection_count(pivot_result) == VoiceCount(pivot_result, "O")

traction_count(pivot_result) == VoiceCount(pivot_result, "T")

(***************************************************************************)
(* The environment: the collection side hands the engine videos whose      *)
(* transcript is a list of caption segments; full_text is the segment      *)
(* texts joined by single spaces (TranscriptExtractor).                    *)
(***************************************************************************)
MaxSegments == 2

SP == 32

SegmentPool ==
  [v1 |-> { <<12471, 12473, 12486, 12512, 12364, 27490, 12414, 12427>>,    \* システムが止まる  (Obstacle verb)
            <<36933, 12356, 12375, 27490, 12414, 12427>>,        \* 遅いし止まる      (negative adjective, Obstacle verb)
            <<12487, 12540, 12479, 12364, 25244, 12369, 12427>>,      \* データが抜ける    (listed under Obstacle and under Loss)
            <<25285, 24403, 32773, 12434, 22833, 12358>>,        \* 担当者を失う      (Loss verb)
            <<33258, 21205, 21270, 12375, 12383, 12356>>,        \* 自動化したい      (Desire verb, desiderative tail)
            <<12381, 12428, 12399, 23244, 12384>>,          \* それは嫌だ        (Rejection verb, assertive tail)
            <<12358, 12414, 12367, 12391, 12365, 12427>>,        \* うまくできる      (Success verb)
            <<12392, 12390, 12418, 38627, 12375, 12356>>,        \* とても難しい      (negative adjective, amplifier)
            <<23569, 12375, 20415, 21033, 12394>> },        \* 少し便利な        (positive adjective, attenuator)
   v2 |-> { <<26469, 24180, 12399, 21427, 12375, 12367, 12394, 12427>>,    \* 来年は厳しくなる  (no table word)
            <<12363, 12418, 12375, 12428, 12394, 12356>>,        \* かもしれない      (speculative tail)
            <<12392, 24605, 12356, 12414, 12377>>,          \* と思います        (speculative tail that also ends in ます)
            <<34892, 12365, 12383, 12367, 12394, 12356>>,        \* 行きたくない      (negative desiderative tail)
            <<32066, 12431, 12427, 12392, 12356, 12356, 12398, 12395>>,    \* 終わるといいのに  (desiderative tail, positive adjective)
            <<38754, 20498, 12391, 22833, 25943, 12375, 12383>>,      \* 面倒で失敗した    (keywords of P and of O)
            <<12392, 12390, 12418, 38627, 12375, 12356>>,        \* とても難しい
            <<23558, 26469, 12364, 19981, 23433, 12363, 12418, 12375, 12428, 12394, 12356, 12290>> },  \* 将来が不安かもしれない。
   v3 |-> { <<33258, 21205, 21270, 12391, 12365, 12383, 12425, 12392, 12390, 12418, 21161, 12363, 12427>>,                  \* 自動化できたらとても助かる
            <<27598, 22238, 69, 120, 99, 101, 108, 12398, 20837, 21147, 20316, 26989, 12391, 12511, 12473, 12364, 22810, 12367, 12390, 22256, 12387, 12390, 12356, 12427, 12290>>, \* 毎回Excelの入力作業でミスが多くて困っている。
            <<20837, 21147, 12395, 22256, 12427>>,          \* 入力に困る        (Difficulty verb)
            <<36933, 12356, 12391, 12377>>,            \* 遅いです          (negative adjective, assertive tail)
            <<26412, 24403, 12395, 22256, 12387, 12383, 65281>> },        \* 本当に困った！    (ends in a sentence delimiter)
   v4 |-> { <<26032, 12375, 12356, 12471, 12473, 12486, 12512, 12364, 23450, 30528, 12375, 12414, 12375, 12383, 12290>>,   \* 新しいシステムが定着しました。 (T, 2.0 * 1.0 * 0.9)
            <<23569, 12375, 38627, 12375, 12356, 12375, 20837, 21147, 12395, 22256, 12427, 12290>>,         \* 少し難しいし入力に困る。       (P, 2.0 * 0.7 * 1.0)
            <<38750, 24120, 12395, 27005, 12395, 12394, 12427, 12384, 12429, 12358, 12392, 24605, 12358, 12290>>,     \* 非常に楽になるだろうと思う。   (T, 2.0 * 1.5 * 0.6)
            <<27598, 22238, 69, 120, 99, 101, 108, 12398, 20837, 21147, 20316, 26989, 12391, 12511, 12473, 12364, 22810, 12367, 12390, 22256, 12387, 12390, 12356, 12427, 12290>> }]  \* (P, 2.0 * 1.0 * 0.9)

VideoIds == DOMAIN SegmentPool

\* ' '.join(texts)
RECURSIVE JoinWithSpace(_)
JoinWithSpace(texts) ==
  IF texts = <<>> THEN <<>>
  ELSE IF Len(texts) = 1 THEN texts[1]
  ELSE texts[1] \o <<SP>> \o JoinWithSpace(Tail(texts))

NewVideoData(id, has_transcript) ==
  [video_id |-> id, has_transcript |-> has_transcript, segments |-> <<>>, full_text |-> <<>>]

\* the analyzer configurations that are constructed
Configurations ==
  { NewAnalyzer("None", 30, TRUE, TRUE),
    NewAnalyzer("None", 30, FALSE, TRUE),
    NewAnalyzer("None", 30, TRUE, FALSE),
    NewAnalyzer("None", 80, TRUE, TRUE),
    NewAnalyzer("biz_analysis", 30, TRUE, TRUE) }

\* a JsonStorage on which save has not been called, its output file not there
NoStore(include_segments) == [include_segments |-> include_segments, file |-> <<>>, called |-> "None", videos |-> <<>>, append |-> FALSE, before |-> <<>>, printed |-> <<>>, returned |-> <<>>]

\* no method has been called on a sentence
NoProbe == [called |-> "None", text |-> <<>>, segments |-> <<>>, locals |-> <<>>, returned |-> <<>>]

\* a TranscriptExtractor on which extract has not been called
NoFetch(use_cookies, api_available) == [use_cookies |-> use_cookies, api_available |-> api_available, pc |-> "idle", video_id |-> "None", retry_count |-> 0, attempts |-> 0, requests |-> 0, cookies |-> FALSE, failure |-> <<>>, slept |-> <<>>, ytdlp |-> <<>>, api |-> <<>>, returned |-> <<>>]

\* YouTubeCollector before _collect_videos is called: the arguments and locals of the call
NoCollect == [pc |-> "idle", input |-> <<>>, max_videos |-> <<>>, video_ids |-> <<>>, outcomes |-> <<>>, consecutive_failures |-> 0, slept |-> <<>>, results |-> <<>>]

VARIABLES
  analyzer,   \* the PIVOTAnalyzer: its constructor arguments and weights
  video,      \* the VideoData being collected or analysed
  phase,      \* "collecting": the transcript is being put together; "analyzed": analyze_video has returned
  calls,      \* the _classify_sentence calls of the last analyze_video, in order, with their locals
  result,     \* the pivot_result of the last analyze_video: a sequence of length 0 or 1
  rules,      \* the state of the module's rule tables: "well_formed", or what is wrong with them
  raised,     \* the exception that left the constructor or analyze_video: "None", "re.error", "KeyError"
  inflight,   \* the analyze_video calls that threads sharing the analyzer are in the middle of
  marts,      \* what to_mart_items returned for the result: a sequence of length 0 (not called) or 1
  source,     \* the list of URLs a caller holds and the last call of the VideoSourceExtractor on it
  store,      \* the output file of a JsonStorage and the last save call on it
  probe,      \* the last call of one of the engine's methods on a single sentence, with its locals
  fetch,      \* the extract call of a TranscriptExtractor: where it stands, its retries and what it returned
  collect     \* YouTubeCollector._collect_videos: arguments, locals and the delays slept

vars == <<analyzer, video, phase, calls, result, rules, raised, inflight, marts, source, store, probe, fetch, collect>>

Init ==
  /\ analyzer = NewAnalyzer("None", 30, TRUE, TRUE)
  /\ video = NewVideoData("v1", TRUE)
  /\ phase = "collecting"
  /\ calls = <<>>
  /\ result = <<>>
  /\ rules = "well_formed"
  /\ raised = "None"
  /\ inflight = <<>>
  /\ marts = <<>>
  /\ source = [urls |-> <<>>, called |-> "None", arg |-> <<>>, returned |-> <<>>]
  /\ store = NoStore(TRUE)
  /\ probe = NoProbe
  /\ fetch = NoFetch(TRUE, TRUE)
  /\ collect = NoCollect

\* PIVOTAnalyzer(domain, min_confidence, use_morphology, split_by_sentence)
Construct(cfg) ==
  /\ phase = "collecting"
  /\ video.segments = <<>>
  /\ cfg # analyzer
  /\ analyzer' = cfg
  /\ UNCHANGED <<video, phase, calls, result, rules, raised, inflight, marts, source, store, probe, fetch, collect>>

\* the next video starts: VideoData with a transcript, or with transcript None
NextVideo(id, has_transcript) ==
  /\ phase = "analyzed"
  /\ video' = NewVideoData(id, has_transcript)
  /\ phase' = "collecting"
  /\ calls' = <<>>
  /\ result' = <<>>
  /\ marts' = <<>>
  /\ UNCHANGED <<analyzer, rules, raised, inflight, source, store, probe, fetch, collect>>

\* one more caption segment of the video
Supply(text) ==
  /\ phase = "collecting"
  /\ video.has_transcript
  /\ Len(video.segments) < MaxSegments
  /\ text \in SegmentPool[video.video_id]
  /\ video' = [video EXCEPT !.segments = Append(@, text),
                            !.full_text = JoinWithSpace(Append(video.segments, text))]
  /\ UNCHANGED <<analyzer, phase, calls, result, rules, raised, inflight, marts, source, store, probe, fetch, collect>>

\* analyzer.analyze_video(video)
Analyze_video ==
  /\ phase = "collecting"
  /\ calls' \in Outcomes(Classified(analyzer, video))
  /\ result' = <<AnalyzeVideo(analyzer, video, calls')>>
  /\ phase' = "analyzed"
  /\ UNCHANGED <<analyzer, video, rules, raised, inflight, marts, source, store, probe, fetch, collect>>

(***************************************************************************)
(* VideoAnalysisResult.to_mart_items.  Of the records' fields, the ones    *)
(* built from what the model holds: channel, title, timestamp and          *)
(* observed_at are left out.                                               *)
(***************************************************************************)
\* round(x, 2) of an intensity: the products are whole hundredths up to the rounding of the double
Round2(value, rounding) == value

\* the records carry the bare insight id
ToMartItems_barePrefix(items, video_id) ==
  [i \in DOMAIN items |->
     [id |-> items[i].id,
      mart_type |-> "pivot_insight",
      pivot_voice |-> items[i].pivot_voice,
      pivot_label |-> items[i].pivot_label,
      pivot_score |-> items[i].pivot_score,
      target_layers |-> items[i].target_layers,
      title |-> items[i].title,
      body |-> items[i].body,
      confidence |-> items[i].confidence,
      temperature |-> items[i].temperature,
      keywords |-> [surface |-> items[i].matched_keywords],
      source_ref |-> [doc_id |-> video_id, doc_type |-> "youtube_transcript"],
      morphology |-> [intensity_score |-> Round2(items[i].intensity_score, items[i].intensity_rounding),
                      degree_factor |-> items[i].degree_factor,
                      certainty |-> items[i].certainty,
                      reasoning |-> items[i].reasoning]]]

\* marts, for self.pivot_result.items = items and self.video_id = video_id
ToMartItems(items, video_id) ==
  [i \in DOMAIN items |->
     [id |-> <<112, 105, 118, 111, 116, 95>> \o items[i].id,
      mart_type |-> "pivot_insight",
      pivot_voice |-> items[i].pivot_voice,
      pivot_label |-> items[i].pivot_label,
      pivot_score |-> items[i].pivot_score,
      target_layers |-> items[i].target_layers,
      title |-> items[i].title,
      body |-> items[i].body,
      confidence |-> items[i].confidence,
      temperature |-> items[i].temperature,
      keywords |-> [surface |-> items[i].matched_keywords],
      source_ref |-> [doc_id |-> video_id, doc_type |-> "youtube_transcript"],
      morphology |-> [intensity_score |-> Round2(items[i].intensity_score, items[i].intensity_rounding),
                      degree_factor |-> items[i].degree_factor,
                      certainty |-> items[i].certainty,
                      reasoning |-> items[i].reasoning]]]

\* result.to_mart_items(), result being the VideoAnalysisResult of the last analyze_video
To_mart_items ==
  /\ phase = "analyzed"
  /\ marts' = <<ToMartItems(result[1].items, video.video_id)>>
  /\ UNCHANGED <<analyzer, video, phase, calls, result, rules, raised, inflight, source, store, probe, fetch, collect>>

Next ==
  \/ \E cfg \in Configurations : Construct(cfg)
  \/ \E id \in VideoIds, has_transcript \in BOOLEAN : NextVideo(id, has_transcript)
  \/ \E text \in SegmentPool[video.video_id] : Supply(text)
  \/ Analyze_video

Spec == Init /\ [][Next]_vars

(***************************************************************************)
(* The export of the results: the documents of one channel are analysed    *)
(* by an engine of any configuration and their results exported.           *)
(***************************************************************************)
InitExport ==
  /\ analyzer \in Configurations
  /\ video = NewVideoData("v4", TRUE)
  /\ phase = "collecting"
  /\ calls = <<>>
  /\ result = <<>>
  /\ rules = "well_formed"
  /\ raised = "None"
  /\ inflight = <<>>
  /\ marts = <<>>
  /\ source = [urls |-> <<>>, called |-> "None", arg |-> <<>>, returned |-> <<>>]
  /\ store = NoStore(TRUE)
  /\ probe = NoProbe
  /\ fetch = NoFetch(TRUE, TRUE)
  /\ collect = NoCollect

NextExport ==
  \/ \E has_transcript \in BOOLEAN : NextVideo(video.video_id, has_transcript)
  \/ \E text \in SegmentPool[video.video_id] : Supply(text)
  \/ Analyze_video
  \/ To_mart_items

SpecExport == InitExport /\ [][NextExport]_vars

(***************************************************************************)
(* The engine over rule tables that may be malformed.  The tables are the  *)
(* module's PIVOT_KEYWORDS, LAYER_PATTERNS and TAIL_PATTERNS; what can be  *)
(* wrong with them is a regular expression that re.compile rejects, or a   *)
(* voice of PIVOT.ALL that has no entry in PIVOT_KEYWORDS.                 *)
(***************************************************************************)
RuleTables ==
  { "well_formed",
    "unparsable_pivot_pattern",    \* in PIVOT_KEYWORDS[voice]["patterns"]
    "unparsable_layer_pattern",    \* in LAYER_PATTERNS[layer]["extraction_patterns"]
    "unparsable_tail_pattern",     \* in TAIL_PATTERNS
    "voice_absent" }               \* PIVOT_KEYWORDS has no entry for a voice of PIVOT.ALL

\* PIVOTAnalyzer(...) has been called with the arguments of analyzer; __init__ has not run yet
InitRules ==
  /\ rules \in RuleTables
  /\ analyzer \in Configurations
  /\ video = NewVideoData("v2", TRUE)
  /\ phase = "constructing"
  /\ calls = <<>>
  /\ result = <<>>
  /\ raised = "None"
  /\ inflight = <<>>
  /\ marts = <<>>
  /\ source = [urls |-> <<>>, called |-> "None", arg |-> <<>>, returned |-> <<>>]
  /\ store = NoStore(TRUE)
  /\ probe = NoProbe
  /\ fetch = NoFetch(TRUE, TRUE)
  /\ collect = NoCollect

(* the re.compile calls of the constructors: MorphologyAnalyzer.__init__ compiles
   TAIL_PATTERNS, and runs only when use_morphology is set; PIVOTAnalyzer.__init__
   compiles the patterns of the PIVOT_KEYWORDS entries that exist, then those of
   LAYER_PATTERNS.  No table is looked up by voice. *)
CompileFails(self, tables) ==
  \/ tables = "unparsable_tail_pattern" /\ self.use_morphology
  \/ tables = "unparsable_pivot_pattern"
  \/ tables = "unparsable_layer_pattern"

\* PIVOTAnalyzer.__init__
Construct_rules ==
  /\ phase = "constructing"
  /\ IF CompileFails(analyzer, rules)
     THEN phase' = "failed" /\ raised' = "re.error"
     ELSE phase' = "collecting" /\ raised' = "None"
  /\ UNCHANGED <<analyzer, video, calls, result, rules, inflight, marts, source, store, probe, fetch, collect>>

(* _classify_pivot reads PIVOT_KEYWORDS[pivot] for every pivot of PIVOT.ALL: the
   first call that consults the lexical classifier raises KeyError when a voice
   has no entry.  0 when no call does. *)
FirstLexical(cs) ==
  IF \E k \in DOMAIN cs : cs[k].lexical_ran
  THEN CHOOSE k \in DOMAIN cs : cs[k].lexical_ran /\ \A h \in 1..(k - 1) : ~cs[h].lexical_ran
  ELSE 0

\* the calls that returned before the call that raised
Before(cs, n) == SubSeq(cs, 1, n - 1)

\* analyzer.analyze_video(video)
Analyze_video_rules ==
  /\ phase = "collecting"
  /\ IF rules = "voice_absent" /\ FirstLexical(Classified(analyzer, video)) > 0
     THEN /\ calls' \in Outcomes(Before(Classified(analyzer, video), FirstLexical(Classified(analyzer, video))))
          /\ raised' = "KeyError"
          /\ phase' = "raised"
          /\ UNCHANGED <<analyzer, video, result, rules, inflight, marts, source, store, probe, fetch, collect>>
     ELSE Analyze_video

NextRules ==
  \/ Construct_rules
  \/ \E text \in SegmentPool[video.video_id] : Supply(text)
  \/ Analyze_video_rules

SpecRules == InitRules /\ [][NextRules]_vars

(***************************************************************************)
(* One engine shared by threads, each in an analyze_video call of its own  *)
(* document.  A call is the steps of its code: the split, one iteration of *)
(* the loop per sentence, and the statements after the loop; the steps of  *)
(* the threads interleave.  What a call keeps between its steps (sentences,*)
(* items, by_pivot, ...) are locals of the call.                           *)
(***************************************************************************)
Threads == {1, 2}

Document(id, segments) ==
  [video_id |-> id, has_transcript |-> TRUE, segments |-> segments, full_text |-> JoinWithSpace(segments)]

Documents ==
  { Document("v4", << <<26032, 12375, 12356, 12471, 12473, 12486, 12512, 12364, 23450, 30528, 12375, 12414, 12375, 12383, 12290>>, <<23569, 12375, 38627, 12375, 12356, 12375, 20837, 21147, 12395, 22256, 12427, 12290>> >>),
    Document("v4", << <<38750, 24120, 12395, 27005, 12395, 12394, 12427, 12384, 12429, 12358, 12392, 24605, 12358, 12290>>, <<26032, 12375, 12356, 12471, 12473, 12486, 12512, 12364, 23450, 30528, 12375, 12414, 12375, 12383, 12290>> >>),
    Document("v2", << <<26469, 24180, 12399, 21427, 12375, 12367, 12394, 12427>>, <<12363, 12418, 12375, 12428, 12394, 12356>> >>),
    Document("v3", << <<26412, 24403, 12395, 22256, 12387, 12383, 65281>> >>),
    NewVideoData("v1", FALSE) }

Idle == [pc |-> "idle", doc |-> <<>>, sentences |-> <<>>, cs |-> <<>>, result |-> <<>>]

InitShared ==
  /\ analyzer \in Configurations
  /\ inflight = [t \in Threads |-> Idle]
  /\ video = NewVideoData("v1", TRUE)
  /\ phase = "collecting"
  /\ calls = <<>>
  /\ result = <<>>
  /\ rules = "well_formed"
  /\ raised = "None"
  /\ marts = <<>>
  /\ source = [urls |-> <<>>, called |-> "None", arg |-> <<>>, returned |-> <<>>]
  /\ store = NoStore(TRUE)
  /\ probe = NoProbe
  /\ fetch = NoFetch(TRUE, TRUE)
  /\ collect = NoCollect

\* every loop appends to the list of thread 1
OwnCalls_shared(threads, t) == threads[1].cs

\* the local list that the loop of thread t appends to
OwnCalls(threads, t) == threads[t].cs

\* analyze_video(video) up to the loop: transcript_text, the early return, _split_sentences
Begin(t, doc) ==
  /\ inflight[t].pc = "idle"
  /\ inflight' = [inflight EXCEPT ![t] =
                    IF ~doc.has_transcript \/ doc.full_text = <<>>
                    THEN [Idle EXCEPT !.pc = "done", !.doc = <<doc>>, !.result = <<EmptyResult>>]
                    ELSE [Idle EXCEPT !.pc = "loop", !.doc = <<doc>>,
                                      !.sentences = SplitSentences(analyzer, doc.full_text)]]
  /\ UNCHANGED <<analyzer, video, phase, calls, result, rules, raised, marts, source, store, probe, fetch, collect>>

\* the call of the iteration, with the id that uuid.uuid4() gave to its insight
Iteration(self, th, k, run) ==
  Issued([h \in {k} |-> ClassifySentence(self, th.sentences[k], th.doc[1].video_id)], run)[k]

\* one iteration of "for sentence in sentences"
Step(t) ==
  /\ inflight[t].pc = "loop"
  /\ Len(inflight[t].cs) < Len(inflight[t].sentences)
  /\ \E run \in UuidRuns :
       inflight' = [inflight EXCEPT ![t].cs =
                      Append(OwnCalls(inflight, t),
                             Iteration(analyzer, inflight[t], Len(inflight[t].cs) + 1, run))]
  /\ UNCHANGED <<analyzer, video, phase, calls, result, rules, raised, marts, source, store, probe, fetch, collect>>

\* the statements after the loop, and the return
Finish(t) ==
  /\ inflight[t].pc = "loop"
  /\ Len(inflight[t].cs) >= Len(inflight[t].sentences)
  /\ inflight' = [inflight EXCEPT ![t].pc = "done",
                                  ![t].result = <<AnalyzeVideo(analyzer, inflight[t].doc[1], inflight[t].cs)>>]
  /\ UNCHANGED <<analyzer, video, phase, calls, result, rules, raised, marts, source, store, probe, fetch, collect>>

\* the caller has taken the result; the thread is free for the next document
Return(t) ==
  /\ inflight[t].pc = "done"
  /\ inflight' = [inflight EXCEPT ![t] = Idle]
  /\ UNCHANGED <<analyzer, video, phase, calls, result, rules, raised, marts, source, store, probe, fetch, collect>>

NextShared ==
  \/ \E t \in Threads, doc \in Documents : Begin(t, doc)
  \/ \E t \in Threads : Step(t)
  \/ \E t \in Threads : Finish(t)
  \/ \E t \in Threads : Return(t)

SpecShared == InitShared /\ [][NextShared]_vars

(***************************************************************************)
(* VideoSourceExtractor: extract_video_id and extract_from_urls.  None is  *)
(* the empty sequence, a returned id a sequence of one text.               *)
(***************************************************************************)
\* [a-zA-Z0-9_-]
IdChars == (97..122) \cup (65..90) \cup (48..57) \cup {95, 45}

\* ([a-zA-Z0-9_-]{11}) matches at position i
IdAt(url, i) == i >= 1 /\ i + 10 <= Len(url) /\ \A j \in i..(i + 10) : url[j] \in IdChars

(* VIDEO_ID_PATTERNS: a non-capturing alternation of literals and then the group,
   or the group between ^ and $ *)
VIDEO_ID_PATTERNS ==
  << [anchored |-> FALSE, prefixes |-> << <<118, 61>>, <<47, 118, 47>>, <<121, 111, 117, 116, 117, 46, 98, 101, 47>> >>],
     [anchored |-> FALSE, prefixes |-> << <<101, 109, 98, 101, 100, 47>> >>],
     [anchored |-> TRUE,  prefixes |-> << <<>> >>] >>

\* the alternatives of the pattern that match at position i, by their index
PrefixesAt(pattern, url, i) ==
  {a \in DOMAIN pattern.prefixes :
     StartsWithAt(url, pattern.prefixes[a], i) /\ IdAt(url, i + Len(pattern.prefixes[a]))}

(* re.search(pattern, url): None, or group(1) of the leftmost match, of the first
   alternative that matches there.  ^ matches at the start only; $ at the end and
   before a line break that ends the text. *)
SearchId(pattern, url) ==
  IF pattern.anchored
  THEN IF IdAt(url, 1) /\ (Len(url) = 11 \/ (Len(url) = 12 /\ url[12] = NL))
       THEN <<SubSeq(url, 1, 11)>> ELSE <<>>
  ELSE LET starts == {i \in 1..Len(url) : PrefixesAt(pattern, url, i) # {}}
       IN IF starts = {} THEN <<>>
          ELSE <<SubSeq(url, Least(starts) + Len(pattern.prefixes[Least(PrefixesAt(pattern, url, Least(starts)))]),
                             Least(starts) + Len(pattern.prefixes[Least(PrefixesAt(pattern, url, Least(starts)))]) + 10)>>

\* the loop over VIDEO_ID_PATTERNS, from pattern k on
RECURSIVE FirstMatch(_, _)
FirstMatch(url, k) ==
  IF k > Len(VIDEO_ID_PATTERNS) THEN <<>>
  ELSE OrElse(SearchId(VIDEO_ID_PATTERNS[k], url), FirstMatch(url, k + 1))

ExtractVideoId(url) == FirstMatch(url, 1)

\* vid = self.extract_video_id(url.strip()); if vid: video_ids.append(vid)
RECURSIVE ExtractFromUrls(_)
ExtractFromUrls(urls) ==
  IF urls = <<>> THEN <<>>
  ELSE ExtractVideoId(Strip(Head(urls))) \o ExtractFromUrls(Tail(urls))

MaxUrls == 4

\* the entries that callers put into their lists
ListPool ==
  { <<104, 116, 116, 112, 115, 58, 47, 47, 119, 119, 119, 46, 121, 111, 117, 116, 117, 98, 101, 46, 99, 111, 109, 47, 119, 97, 116, 99, 104, 63, 118, 61, 97, 98, 99, 49, 50, 51, 52, 53, 54, 55, 56>>,
    <<104, 116, 116, 112, 115, 58, 47, 47, 121, 111, 117, 116, 117, 46, 98, 101, 47, 100, 101, 102, 49, 50, 51, 52, 53, 54, 55, 56>>,
    <<105, 110, 118, 97, 108, 105, 100, 95, 117, 114, 108>>,
    <<103, 104, 105, 49, 50, 51, 52, 53, 54, 55, 56>>,
    <<SP>> \o <<104, 116, 116, 112, 115, 58, 47, 47, 121, 111, 117, 116, 117, 46, 98, 101, 47, 100, 101, 102, 49, 50, 51, 52, 53, 54, 55, 56>> \o <<NL>> }

\* the URLs that extract_video_id is called with
UrlPool ==
  ListPool \cup
  { <<104, 116, 116, 112, 115, 58, 47, 47, 119, 119, 119, 46, 121, 111, 117, 116, 117, 98, 101, 46, 99, 111, 109, 47, 101, 109, 98, 101, 100, 47, 100, 81, 119, 52, 119, 57, 87, 103, 88, 99, 81>>,
    <<104, 116, 116, 112, 115, 58, 47, 47, 119, 119, 119, 46, 121, 111, 117, 116, 117, 98, 101, 46, 99, 111, 109, 47, 119, 97, 116, 99, 104, 63, 118, 61, 100, 81, 119, 52, 119, 57, 87, 103, 88, 99, 81, 38, 116, 61, 49, 50, 48>>,
    <<100, 81, 119, 52, 119, 57, 87, 103, 88, 99, 81>>,
    <<104, 116, 116, 112, 115, 58, 47, 47, 101, 120, 97, 109, 112, 108, 101, 46, 99, 111, 109, 47, 118, 105, 100, 101, 111>>,
    <<104, 116, 116, 112, 115, 58, 47, 47, 119, 119, 119, 46, 121, 111, 117, 116, 117, 98, 101, 46, 99, 111, 109, 47, 101, 109, 98, 101, 100, 47, 118, 105, 100, 101, 111, 115, 101, 114, 105, 101, 115, 63, 108, 105, 115, 116, 61, 80, 76, 53, 57, 48, 76, 53, 87, 81, 109, 72, 56>> }

NoSource == [urls |-> <<>>, called |-> "None", arg |-> <<>>, returned |-> <<>>]

InitSource ==
  /\ source = NoSource
  /\ analyzer = NewAnalyzer("None", 30, TRUE, TRUE)
  /\ video = NewVideoData("v1", TRUE)
  /\ phase = "collecting"
  /\ calls = <<>>
  /\ result = <<>>
  /\ rules = "well_formed"
  /\ raised = "None"
  /\ inflight = <<>>
  /\ marts = <<>>
  /\ store = NoStore(TRUE)
  /\ probe = NoProbe
  /\ fetch = NoFetch(TRUE, TRUE)
  /\ collect = NoCollect

\* the caller puts one more entry into the list
Add_url(url) ==
  /\ Len(source.urls) < MaxUrls
  /\ source' = [NoSource EXCEPT !.urls = Append(source.urls, url)]
  /\ UNCHANGED <<analyzer, video, phase, calls, result, rules, raised, inflight, marts, store, probe, fetch, collect>>

\* extractor.extract_video_id(url), by a caller that holds a single URL and no list
Extract_video_id(url) ==
  /\ source.urls = <<>>
  /\ source' = [source EXCEPT !.called = "extract_video_id",
                              !.arg = <<url>>,
                              !.returned = ExtractVideoId(url)]
  /\ UNCHANGED <<analyzer, video, phase, calls, result, rules, raised, inflight, marts, store, probe, fetch, collect>>

\* extractor.extract_from_urls(urls)
Extract_from_urls ==
  /\ source' = [source EXCEPT !.called = "extract_from_urls",
                              !.arg = source.urls,
                              !.returned = ExtractFromUrls(source.urls)]
  /\ UNCHANGED <<analyzer, video, phase, calls, result, rules, raised, inflight, marts, store, probe, fetch, collect>>

\* the caller starts a new list
Clear_urls ==
  /\ source.urls # <<>>
  /\ source' = NoSource
  /\ UNCHANGED <<analyzer, video, phase, calls, result, rules, raised, inflight, marts, store, probe, fetch, collect>>

NextSource ==
  \/ \E url \in ListPool : Add_url(url)
  \/ \E url \in UrlPool : Extract_video_id(url)
  \/ Extract_from_urls
  \/ Clear_urls

SpecSource == InitSource /\ [][NextSource]_vars

(***************************************************************************)
(* JsonStorage: the output file and save(videos, append).  The file is a   *)
(* sequence of length 0 (no file) or 1 (the list under the key "videos").  *)
(***************************************************************************)
MaxBatch == 2

\* VideoData as the collector builds it; crawled_at tells two collections of one video apart
CollectedVideo(id, at, error) == [video_id |-> id, crawled_at |-> at, transcript |-> [error |-> error, segments |-> IF error = "None" THEN <<"segment">> ELSE <<>>]]

\* TranscriptData.to_dict: the key "error" only when an error is set, "segments" only when asked for
TranscriptDict(t, include_segments) == [key \in {"segment_count"} \cup (IF t.error # "None" THEN {"error"} ELSE {}) \cup (IF include_segments THEN {"segments"} ELSE {}) |-> CASE key = "segment_count" -> Len(t.segments) [] key = "error" -> t.error [] key = "segments" -> t.segments]

\* VideoData.to_dict(include_segments)
ToDict(v, include_segments) == [video_id |-> v.video_id, crawled_at |-> v.crawled_at, transcript |-> TranscriptDict(v.transcript, include_segments)]

ToDicts(videos, include_segments) == [i \in DOMAIN videos |-> ToDict(videos[i], include_segments)]

\* the loop of _merge_existing over new_videos[i..]: the merged list, the ids seen and the number added
RECURSIVE MergeLoop(_, _, _, _, _, _)
MergeLoop(new_videos, i, merged, existing_ids, added, include_segments) ==
  IF i > Len(new_videos) THEN [merged |-> merged, added |-> added]
  ELSE IF new_videos[i].video_id \notin existing_ids
       THEN MergeLoop(new_videos, i + 1, Append(merged, ToDict(new_videos[i], include_segments)), existing_ids \cup {new_videos[i].video_id}, added + 1, include_segments)
       ELSE MergeLoop(new_videos, i + 1, merged, existing_ids, added, include_segments)

\* JsonStorage._merge_existing: merged is built and printed, new_videos is returned
MergeExisting(file, new_videos, include_segments) ==
  LET existing_videos == IF file = <<>> THEN <<>> ELSE file[1]
      existing_ids == {existing_videos[k].video_id : k \in DOMAIN existing_videos}
      loop == MergeLoop(new_videos, 1, existing_videos, existing_ids, 0, include_segments)
  IN [videos |-> ToDicts(new_videos, include_segments),
      printed |-> [existing |-> Len(existing_videos), added |-> loop.added, total |-> Len(loop.merged)]]

\* the number of videos without transcript error among the ones written
Successful(videos) == Cardinality({k \in DOMAIN videos : videos[k].transcript.error = "None"})

\* output['crawl_info'] of save, without tool, version and crawled_at
CrawlInfo(results, successful) == [total_videos |-> Len(results), successful |-> successful, failed |-> Len(results) - successful]

\* the videos a collection hands to save
StoragePool ==
  { CollectedVideo("abc12345678", 1, "None"),
    CollectedVideo("abc12345678", 2, "None"),
    CollectedVideo("def12345678", 1, "No transcript available"),
    CollectedVideo("ghi12345678", 2, "None") }

Batches == UNION {[1..n -> StoragePool] : n \in 0..MaxBatch}

InitStorage ==
  /\ store \in {NoStore(b) : b \in BOOLEAN}
  /\ analyzer = NewAnalyzer("None", 30, TRUE, TRUE)
  /\ video = NewVideoData("v1", TRUE)
  /\ phase = "collecting"
  /\ calls = <<>>
  /\ result = <<>>
  /\ rules = "well_formed"
  /\ raised = "None"
  /\ inflight = <<>>
  /\ marts = <<>>
  /\ source = NoSource
  /\ probe = NoProbe
  /\ fetch = NoFetch(TRUE, TRUE)
  /\ collect = NoCollect

\* storage.save(videos, append)
Save(videos, append) ==
  LET merge == MergeExisting(store.file, videos, store.include_segments)
      results == IF append THEN merge.videos ELSE ToDicts(videos, store.include_segments)
  IN /\ store' = [store EXCEPT !.file = <<results>>,
                               !.called = "save",
                               !.videos = videos,
                               !.append = append,
                               !.before = store.file,
                               !.printed = IF append THEN <<merge.printed>> ELSE <<>>,
                               !.returned = <<CrawlInfo(results, Successful(videos))>>]
     /\ UNCHANGED <<analyzer, video, phase, calls, result, rules, raised, inflight, marts, source, probe, fetch, collect>>

\* the user removes the output file between two runs
Remove_file ==
  /\ store.file # <<>>
  /\ store' = [NoStore(store.include_segments) EXCEPT !.called = "remove"]
  /\ UNCHANGED <<analyzer, video, phase, calls, result, rules, raised, inflight, marts, source, probe, fetch, collect>>

NextStorage ==
  \/ \E videos \in Batches, append \in BOOLEAN : Save(videos, append)
  \/ Remove_file

SpecStorage == InitStorage /\ [][NextStorage]_vars

(***************************************************************************)
(* The methods that _classify_sentence calls on one sentence, called one   *)
(* at a time: MorphologyAnalyzer.analyze, _classify_pivot, _extract_layers *)
(* and _find_timestamp over the map built from a video's timed segments.   *)
(***************************************************************************)
\* total_score of every iteration of "for pivot in PIVOT.ALL", in that order
TotalScores(text, occ) == [i \in DOMAIN PIVOT_ALL |-> VoiceScore(text, occ, PIVOT_ALL[i])]

\* timestamp_map[key] = value: a present key keeps its place in the dict and takes the new value
DictPut(d, key, value) ==
  IF \E i \in DOMAIN d : d[i].key = key
  THEN [i \in DOMAIN d |-> IF d[i].key = key THEN [key |-> key, value |-> value] ELSE d[i]]
  ELSE Append(d, [key |-> key, value |-> value])

\* seg.text[:30] if len(seg.text) > 30 else seg.text
SegmentKey(text) == IF Len(text) > 30 THEN SubSeq(text, 1, 30) ELSE text

\* _build_timestamp_map: the loop over video.transcript.segments[i..]
RECURSIVE BuildTimestampMap(_, _, _)
BuildTimestampMap(segments, i, timestamp_map) ==
  IF i > Len(segments) THEN timestamp_map
  ELSE BuildTimestampMap(segments, i + 1, DictPut(timestamp_map, SegmentKey(segments[i].text), segments[i].start))

\* _find_timestamp: the loop over timestamp_map.items()[i..]; None is the empty sequence
RECURSIVE FindTimestamp(_, _, _)
FindTimestamp(text, timestamp_map, i) ==
  IF i > Len(timestamp_map) THEN <<>>
  ELSE IF Contains(text, timestamp_map[i].key) \/ Contains(timestamp_map[i].key, SubSeq(text, 1, Min(30, Len(text))))
       THEN <<timestamp_map[i].value>>
       ELSE FindTimestamp(text, timestamp_map, i + 1)

MaxTimed == 3

\* the sentences the methods are called with
SentencePool ==
  UNION {SegmentPool[v] : v \in VideoIds} \cup
  { <<22312, 24235, 12364, 21839, 38988, 12384>>,
    <<12456, 12521, 12540, 12364, 20986, 12383>>,
    <<12511, 12473, 12392, 22833, 25943, 12364, 22810, 12356>>,
    <<12511, 12473, 12392, 22833, 25943, 12392, 25163, 38291, 12392, 28961, 39364, 12364, 22810, 12356>>,
    <<20104, 31639, 12364, 21427, 12375, 12356>>,
    <<23550, 24540, 12364, 38627, 12375, 12356, 21839, 38988>>,
    <<20837, 21147, 12511, 12473, 12364, 21839, 38988, 12391, 12456, 12521, 12540, 12364, 35506, 38988, 12391, 12377>>,
    <<38750, 24120, 12395, 12363, 12394, 12426, 22256, 12427>>,
    <<12392, 12390, 12418, 23569, 12375, 22256, 12427>>,
    <<12354, 12414, 12426, 23569, 12375, 20351, 12431, 12394, 12356>>,
    <<12354, 12414, 12426, 20351, 12431, 12394, 12356>>,
    <<20415, 21033, 12425, 12375, 12356, 12391, 12377>>,
    <<20415, 21033, 12425, 12375, 12356>>,
    <<38632, 12364, 38477, 12426, 12381, 12358, 12384>>,
    <<12418, 12387, 12392, 20351, 12387, 12390, 12411, 12375, 12356>>,
    <<20351, 12356, 12383, 12356, 12392, 24605, 12358>>,
    <<35302, 12387, 12390, 12411, 12375, 12367, 12394, 12356>>,
    <<12378, 12387, 12392, 20351, 12387, 12390, 12356, 12383>>,
    <<25285, 24403, 32773, 12395, 38651, 35441, 12391, 30906, 35469, 12375, 12383>>,
    <<21942, 26989, 37096, 12398, 22312, 24235, 31649, 29702, 12471, 12473, 12486, 12512>>,
    <<32102, 19982, 12398, 35413, 20385>>,
    <<12399, 12356, 12289, 12381, 12428, 12399, 26412, 24403, 12395, 22256, 12387, 12390, 12356, 12414, 12377>>,
    <<27598, 22238, 69, 120, 99, 101, 108, 12398, 20837, 21147, 20316, 26989, 12391, 12511, 12473, 12364, 22810, 12367, 12390, 22256, 12387, 12390, 12356, 12427, 12398, 12391, 12289, 26089, 12367, 26032, 12375, 12356, 12471, 12473, 12486, 12512, 12434, 23566, 20837, 12375, 12390, 12411, 12375, 12356>> }

\* the caption texts of the timed segments
TimedPool ==
  { <<12399, 12356>>,
    <<12471, 12473, 12486, 12512, 12364, 27490, 12414, 12427, 32, 36933, 12356, 12375, 27490, 12414, 12427>>,
    <<27598, 22238, 69, 120, 99, 101, 108, 12398, 20837, 21147, 20316, 26989, 12391, 12511, 12473, 12364, 22810, 12367, 12390, 22256, 12387, 12390, 12356, 12427, 12398, 12391, 12289, 26089, 12367, 26032, 12375, 12356, 12471, 12473, 12486, 12512, 12434, 23566, 20837, 12375, 12390, 12411, 12375, 12356>> }

\* the sentences whose timestamp is looked up
TimedSentences ==
  { <<12399, 12356, 12289, 12381, 12428, 12399, 26412, 24403, 12395, 22256, 12387, 12390, 12356, 12414, 12377>>,
    <<12471, 12473, 12486, 12512, 12364, 27490, 12414, 12427>>,
    <<27598, 22238, 69, 120, 99, 101, 108, 12398, 20837, 21147, 20316, 26989, 12391, 12511, 12473, 12364, 22810, 12367, 12390, 22256, 12387, 12390, 12356, 12427, 12398, 12391, 12289, 26089, 12367, 26032, 12375, 12356, 12471, 12473, 12486, 12512, 12434, 23566, 20837, 12375, 12390, 12411, 12375, 12356>>,
    <<26469, 24180, 12399, 21427, 12375, 12367, 12394, 12427>> }

InitSentence ==
  /\ probe = NoProbe
  /\ analyzer = NewAnalyzer("None", 30, TRUE, TRUE)
  /\ video = NewVideoData("v1", TRUE)
  /\ phase = "collecting"
  /\ calls = <<>>
  /\ result = <<>>
  /\ rules = "well_formed"
  /\ raised = "None"
  /\ inflight = <<>>
  /\ marts = <<>>
  /\ source = NoSource
  /\ store = NoStore(TRUE)
  /\ fetch = NoFetch(TRUE, TRUE)
  /\ collect = NoCollect

\* the next sentence to look at, of a video whose captions are not read yet
Take(text) ==
  /\ probe' = [NoProbe EXCEPT !.text = text]
  /\ UNCHANGED <<analyzer, video, phase, calls, result, rules, raised, inflight, marts, source, store, fetch, collect>>

\* self.morphology_analyzer.analyze(text)
Morphology_analyze ==
  /\ probe.text # <<>>
  /\ probe.segments = <<>>
  /\ probe' = [probe EXCEPT !.called = "analyze", !.locals = <<>>, !.returned = <<Analyze(probe.text)>>]
  /\ UNCHANGED <<analyzer, video, phase, calls, result, rules, raised, inflight, marts, source, store, fetch, collect>>

\* self._classify_pivot(text)
Classify_pivot ==
  /\ probe.text # <<>>
  /\ probe.segments = <<>>
  /\ probe' = [probe EXCEPT !.called = "_classify_pivot",
                            !.locals = TotalScores(probe.text, WordsIn(probe.text)),
                            !.returned = <<ClassifyPivot(probe.text)>>]
  /\ UNCHANGED <<analyzer, video, phase, calls, result, rules, raised, inflight, marts, source, store, fetch, collect>>

\* self._extract_layers(text)
Extract_layers ==
  /\ probe.text # <<>>
  /\ probe.segments = <<>>
  /\ probe' = [probe EXCEPT !.called = "_extract_layers", !.locals = <<>>, !.returned = <<ExtractLayers(probe.text)>>]
  /\ UNCHANGED <<analyzer, video, phase, calls, result, rules, raised, inflight, marts, source, store, fetch, collect>>

\* the video's transcript gets one more timed segment; the start offsets grow by four seconds
Supply_timed(text) ==
  /\ probe.text \in TimedSentences
  /\ Len(probe.segments) < MaxTimed
  /\ probe' = [NoProbe EXCEPT !.text = probe.text,
                              !.segments = Append(probe.segments, [start |-> 4 * Len(probe.segments), text |-> text])]
  /\ UNCHANGED <<analyzer, video, phase, calls, result, rules, raised, inflight, marts, source, store, fetch, collect>>

\* self._find_timestamp(text, self._build_timestamp_map(video))
Find_timestamp ==
  /\ probe.text \in TimedSentences
  /\ probe' = [probe EXCEPT !.called = "_find_timestamp",
                            !.locals = BuildTimestampMap(probe.segments, 1, <<>>),
                            !.returned = FindTimestamp(probe.text, BuildTimestampMap(probe.segments, 1, <<>>), 1)]
  /\ UNCHANGED <<analyzer, video, phase, calls, result, rules, raised, inflight, marts, source, store, fetch, collect>>

NextSentence ==
  \/ \E text \in SentencePool : Take(text)
  \/ Morphology_analyze
  \/ Classify_pivot
  \/ Extract_layers
  \/ \E text \in TimedPool : Supply_timed(text)
  \/ Find_timestamp

SpecSentence == InitSentence /\ [][NextSentence]_vars

(***************************************************************************)
(* TranscriptExtractor.extract and _extract_with_ytdlp.  The call stands   *)
(* at one of its blocking points: "requesting" (ydl.extract_info is out),  *)
(* "sleeping" (time.sleep before a retry), "api" (the fallback is out),    *)
(* or it has "returned".  None is the empty sequence.                      *)
(***************************************************************************)
max_retries == 5

\* str.lower() on the letters A-Z
Lower(text) == [i \in DOMAIN text |-> IF text[i] \in 65..90 THEN text[i] + 32 ELSE text[i]]

RECURSIVE Pow2(_)
Pow2(n) == IF n = 0 THEN 1 ELSE 2 * Pow2(n - 1)

\* wait_time = (2 ** retry_count) * 15
WaitTime(retry_count) == Pow2(retry_count) * 15

\* the messages of the exceptions that ydl.extract_info raises
Failures ==
  { <<85, 110, 97, 98, 108, 101, 32, 116, 111, 32, 100, 111, 119, 110, 108, 111, 97, 100, 32, 118, 105, 100, 101, 111, 32, 115, 117, 98, 116, 105, 116, 108, 101, 115, 32, 102, 111, 114, 32, 39, 106, 97, 39, 58, 32, 72, 84, 84, 80, 32, 69, 114, 114, 111, 114, 32, 52, 50, 57, 58, 32, 84, 111, 111, 32, 77, 97, 110, 121, 32, 82, 101, 113, 117, 101, 115, 116, 115>>,
    <<67, 111, 117, 108, 100, 32, 110, 111, 116, 32, 102, 105, 110, 100, 32, 99, 104, 114, 111, 109, 101, 32, 99, 111, 111, 107, 105, 101, 115, 32, 100, 97, 116, 97, 98, 97, 115, 101>>,
    <<86, 105, 100, 101, 111, 32, 117, 110, 97, 118, 97, 105, 108, 97, 98, 108, 101>> }

\* what ydl.extract_info does: it raises (a sequence holding the message), or it leaves
\* subtitle files in the temporary directory
Downloads == {"text", "no_text", "unparsable", "other_language", "no_file"}

Responses == {[raised |-> <<m>>, files |-> "no_file"] : m \in Failures} \cup {[raised |-> <<>>, files |-> d] : d \in Downloads}

TranscriptDataOf(language, is_generated, segments, full_text, error) == [language |-> language, is_generated |-> is_generated, segments |-> segments, full_text |-> full_text, error |-> error]

\* _parse_json3_subtitles on the file found, or None without a file
Parsed(files) ==
  CASE files = "text" -> <<TranscriptDataOf("ja", FALSE, 2, "text", "None")>>
    [] files = "other_language" -> <<TranscriptDataOf("ko", TRUE, 2, "text", "None")>>
    [] files = "no_text" -> <<TranscriptDataOf("ja", FALSE, 0, "", "no text in the subtitle file")>>
    [] files = "unparsable" -> <<TranscriptDataOf("", FALSE, 0, "", "subtitle file parse error")>>
    [] files = "no_file" -> <<>>

\* the TranscriptData that extract returns when no method gave a transcript
NoTranscript == TranscriptDataOf("", FALSE, 0, "", "could not get subtitles")

\* what _extract_with_api returns
ApiOutcomes == {<<>>, <<TranscriptDataOf("ja", FALSE, 2, "text", "None")>>, <<TranscriptDataOf("ja", FALSE, 0, "", "no text in the subtitle file")>>}

\* extract, from the return of _extract_with_ytdlp on: return result, or go on to the fallback
AfterYtdlp(f, transcript) ==
  IF transcript # <<>> /\ transcript[1].error = "None"
  THEN [f EXCEPT !.pc = "returned", !.ytdlp = transcript, !.returned = transcript]
  ELSE IF f.api_available
       THEN [f EXCEPT !.pc = "api", !.ytdlp = transcript]
       ELSE [f EXCEPT !.pc = "returned", !.ytdlp = transcript, !.returned = <<NoTranscript>>]

\* the handler "except Exception as e" of _extract_with_ytdlp with one retry more allowed
OnFailure_sevenAttempts(f, error_msg) ==
  IF Contains(error_msg, <<52, 50, 57>>) /\ f.retry_count <= max_retries
  THEN [f EXCEPT !.pc = "sleeping", !.failure = <<error_msg>>]
  ELSE AfterYtdlp([f EXCEPT !.failure = <<error_msg>>], <<>>)

\* the handler "except Exception as e" of _extract_with_ytdlp: sleep and retry, or return None
OnFailure(f, error_msg) ==
  IF Contains(error_msg, <<52, 50, 57>>) /\ f.retry_count < max_retries
  THEN [f EXCEPT !.pc = "sleeping", !.failure = <<error_msg>>]
  ELSE AfterYtdlp([f EXCEPT !.failure = <<error_msg>>], <<>>)

InitTranscript ==
  /\ fetch \in {NoFetch(c, a) : c \in BOOLEAN, a \in BOOLEAN}
  /\ analyzer = NewAnalyzer("None", 30, TRUE, TRUE)
  /\ video = NewVideoData("v1", TRUE)
  /\ phase = "collecting"
  /\ calls = <<>>
  /\ result = <<>>
  /\ rules = "well_formed"
  /\ raised = "None"
  /\ inflight = <<>>
  /\ marts = <<>>
  /\ source = NoSource
  /\ store = NoStore(TRUE)
  /\ probe = NoProbe
  /\ collect = NoCollect

\* extractor.extract(video_id), up to the first ydl.extract_info of _extract_with_ytdlp(video_id)
Extract(video_id) ==
  /\ fetch.pc \in {"idle", "returned"}
  /\ fetch' = [NoFetch(fetch.use_cookies, fetch.api_available) EXCEPT !.pc = "requesting", !.video_id = video_id, !.attempts = 1, !.requests = 1, !.cookies = fetch.use_cookies]
  /\ UNCHANGED <<analyzer, video, phase, calls, result, rules, raised, inflight, marts, source, store, probe, collect>>

\* ydl.extract_info returns or raises: the request is repeated without cookies, or the
\* subtitle file is parsed, or the failure is handled
Respond(response) ==
  /\ fetch.pc = "requesting"
  /\ fetch' = IF response.raised = <<>> THEN AfterYtdlp(fetch, Parsed(response.files))
              ELSE IF fetch.cookies /\ Contains(Lower(response.raised[1]), <<99, 111, 111, 107, 105, 101>>)
                   THEN [fetch EXCEPT !.cookies = FALSE, !.requests = @ + 1]
                   ELSE OnFailure(fetch, response.raised[1])
  /\ UNCHANGED <<analyzer, video, phase, calls, result, rules, raised, inflight, marts, source, store, probe, collect>>

\* time.sleep(wait_time) is over: _extract_with_ytdlp(video_id, retry_count + 1)
Retry ==
  /\ fetch.pc = "sleeping"
  /\ fetch' = [fetch EXCEPT !.pc = "requesting", !.slept = Append(@, WaitTime(fetch.retry_count)), !.failure = <<>>, !.retry_count = @ + 1, !.attempts = @ + 1, !.requests = @ + 1, !.cookies = fetch.use_cookies]
  /\ UNCHANGED <<analyzer, video, phase, calls, result, rules, raised, inflight, marts, source, store, probe, collect>>

\* _extract_with_api returns: extract returns its transcript, or the error
Fallback(outcome) ==
  /\ fetch.pc = "api"
  /\ fetch' = [fetch EXCEPT !.pc = "returned", !.api = outcome, !.returned = IF outcome # <<>> /\ outcome[1].error = "None" THEN outcome ELSE <<NoTranscript>>]
  /\ UNCHANGED <<analyzer, video, phase, calls, result, rules, raised, inflight, marts, source, store, probe, collect>>

NextTranscript ==
  \/ \E video_id \in {"abc12345678", "ghi12345678"} : Extract(video_id)
  \/ \E response \in Responses : Respond(response)
  \/ Retry
  \/ \E outcome \in ApiOutcomes : Fallback(outcome)

SpecTranscript == InitTranscript /\ [][NextTranscript]_vars /\ WF_vars(NextTranscript)

(***************************************************************************)
(* YouTubeCollector._collect_videos (collector.py): the IDs are            *)
(* deduplicated and limited, then collected one by one with a delay        *)
(* between two requests that grows with the consecutive failures.          *)
(***************************************************************************)
\* Settings.default_max_videos
default_max_videos == 20

\* base_delay = 5.0 and the 5.0 added per failure, in seconds
base_delay == 5

\* the cap of the delay, min(delay, 60.0), in seconds
delay_cap == 60

\* videos of one call collected without a transcript error that the model follows
MaxCollected == 2

\* the loop "for vid in video_ids: if vid not in seen"
RECURSIVE UniqueIds(_, _, _, _)
UniqueIds(video_ids, i, seen, unique_ids) ==
  IF i > Len(video_ids) THEN unique_ids
  ELSE IF video_ids[i] \in seen THEN UniqueIds(video_ids, i + 1, seen, unique_ids)
       ELSE UniqueIds(video_ids, i + 1, seen \cup {video_ids[i]}, Append(unique_ids, video_ids[i]))

\* the slice s[:n] of Python, n of either sign
Slice(s, n) ==
  IF n >= 0 THEN SubSeq(s, 1, Min(n, Len(s)))
  ELSE SubSeq(s, 1, IF Len(s) + n > 0 THEN Len(s) + n ELSE 0)

\* max_v = max_videos or self.settings.default_max_videos: None and 0 are falsy
MaxV(max_videos) == IF max_videos = <<>> \/ max_videos[1] = 0 THEN default_max_videos ELSE max_videos[1]

\* delay = min(base_delay + consecutive_failures * 5.0, 60.0)
Delay(consecutive_failures) == Min(base_delay + consecutive_failures * 5, delay_cap)

\* 21 distinct video IDs
LongIds == [n \in 1..21 |-> <<"vid00000001", "vid00000002", "vid00000003", "vid00000004", "vid00000005", "vid00000006", "vid00000007", "vid00000008", "vid00000009", "vid00000010", "vid00000011", "vid00000012", "vid00000013", "vid00000014", "vid00000015", "vid00000016", "vid00000017", "vid00000018", "vid00000019", "vid00000020", "vid00000021">>[n]]

\* the ID lists handed to _collect_videos: short ones with repeated IDs, and one of 21
\* distinct IDs with its first ID repeated
IdLists ==
  { <<>>, <<"abc12345678">>, <<"abc12345678", "abc12345678">>,
    <<"abc12345678", "ghi12345678", "abc12345678">>,
    <<"abc12345678", "ghi12345678", "def12345678">>,
    <<LongIds[1], LongIds[2]>> \o LongIds }

\* max_videos: Optional[int], as the callers pass it (--max is any int, default 20);
\* <<>> is None
MaxVideos == {<<>>, <<0>>, <<1>>, <<2>>, <<3>>}

InitCollect ==
  /\ collect = NoCollect
  /\ analyzer = NewAnalyzer("None", 30, TRUE, TRUE)
  /\ video = NewVideoData("v1", TRUE)
  /\ phase = "collecting"
  /\ calls = <<>>
  /\ result = <<>>
  /\ rules = "well_formed"
  /\ raised = "None"
  /\ inflight = <<>>
  /\ marts = <<>>
  /\ source = NoSource
  /\ store = NoStore(TRUE)
  /\ probe = NoProbe
  /\ fetch = NoFetch(TRUE, TRUE)

\* _collect_videos(video_ids, max_videos, verbose) up to the loop: deduplicate and limit,
\* return [] when nothing is left
Collect_videos(video_ids, max_videos) ==
  /\ collect.pc \in {"idle", "returned"}
  /\ LET limited == Slice(UniqueIds(video_ids, 1, {}, <<>>), MaxV(max_videos))
     IN collect' = [NoCollect EXCEPT !.pc = IF limited = <<>> THEN "returned" ELSE "collecting",
                                     !.input = video_ids, !.max_videos = max_videos, !.video_ids = limited]
  /\ UNCHANGED <<analyzer, video, phase, calls, result, rules, raised, inflight, marts, source, store, probe, fetch>>

\* one round of the loop "for i, vid in enumerate(video_ids, 1)": collect_video(vid) returns
\* a VideoData whose transcript has an error or not, the counter is updated, and the delay
\* is slept unless this was the last video
Collect_video(error) ==
  /\ collect.pc = "collecting"
  /\ ~error => Len(SelectSeq(collect.outcomes, LAMBDA o : o = "transcript")) < MaxCollected
  /\ LET i == Len(collect.results) + 1
         consecutive_failures == IF error THEN collect.consecutive_failures + 1 ELSE 0
     IN collect' = [collect EXCEPT !.results = Append(@, collect.video_ids[i]),
                                   !.outcomes = Append(@, IF error THEN "transcript_error" ELSE "transcript"),
                                   !.consecutive_failures = consecutive_failures,
                                   !.slept = IF i < Len(collect.video_ids) THEN Append(@, Delay(consecutive_failures)) ELSE @,
                                   !.pc = IF i < Len(collect.video_ids) THEN "collecting" ELSE "returned"]
  /\ UNCHANGED <<analyzer, video, phase, calls, result, rules, raised, inflight, marts, source, store, probe, fetch>>

NextCollect ==
  \/ \E video_ids \in IdLists, max_videos \in MaxVideos : Collect_videos(video_ids, max_videos)
  \/ \E error \in BOOLEAN : Collect_video(error)

SpecCollect == InitCollect /\ [][NextCollect]_vars

(***************************************************************************)
(* The engine over the captions of a video about one tool: several of its  *)
(* sentences bind the same value to the tool layer under different voices. *)
(***************************************************************************)
GroupedPool ==
  { <<69, 120, 99, 101, 108, 12398, 20837, 21147, 20316, 26989, 12434, 33258, 21205, 21270, 12375, 12383, 12356, 12392, 24605, 12356, 12414, 12377, 12290>>,       \* Excelの入力作業を自動化したいと思います。   (V, tool Excel)
    <<27598, 22238, 69, 120, 99, 101, 108, 12398, 20837, 21147, 20316, 26989, 12391, 12511, 12473, 12364, 22810, 12367, 12390, 22256, 12387, 12390, 12356, 12427, 12290>>,   \* 毎回Excelの入力作業でミスが多くて困っている。 (P, tool Excel)
    <<69, 120, 99, 101, 108, 12399, 39640, 12356, 12375, 20837, 21147, 20316, 26989, 12395, 20351, 12360, 12394, 12356, 12392, 24605, 12358, 12290>>,         \* Excelは高いし入力作業に使えないと思う。     (I, tool Excel)
    <<20837, 21147, 20316, 26989, 12398, 12475, 12461, 12517, 12522, 12486, 12451, 12364, 19981, 23433, 12391, 24515, 37197, 12391, 12377, 12290>> }       \* 入力作業のセキュリティが不安で心配です。   (I, process only)

InitGrouped ==
  /\ analyzer \in Configurations
  /\ video = NewVideoData("v5", TRUE)
  /\ phase = "collecting"
  /\ calls = <<>>
  /\ result = <<>>
  /\ rules = "well_formed"
  /\ raised = "None"
  /\ inflight = <<>>
  /\ marts = <<>>
  /\ source = NoSource
  /\ store = NoStore(TRUE)
  /\ probe = NoProbe
  /\ fetch = NoFetch(TRUE, TRUE)
  /\ collect = NoCollect

\* one more caption segment of the video about the tool
Supply_grouped(text) ==
  /\ phase = "collecting"
  /\ video.has_transcript
  /\ Len(video.segments) < MaxSegments
  /\ video' = [video EXCEPT !.segments = Append(@, text),
                            !.full_text = JoinWithSpace(Append(video.segments, text))]
  /\ UNCHANGED <<analyzer, phase, calls, result, rules, raised, inflight, marts, source, store, probe, fetch, collect>>

NextGrouped ==
  \/ \E has_transcript \in BOOLEAN : NextVideo(video.video_id, has_transcript)
  \/ \E text \in GroupedPool : Supply_grouped(text)
  \/ Analyze_video

SpecGrouped == InitGrouped /\ [][NextGrouped]_vars

TypeOK ==
  /\ phase \in {"collecting", "analyzed"}
  /\ Len(result) <= 1
  /\ (phase = "analyzed") = (result # <<>>)

(***************************************************************************)
(* Properties.                                                             *)
(***************************************************************************)
Items == IF result = <<>> THEN <<>> ELSE result[1].items

DefaultAnalyzer == NewAnalyzer("None", 30, TRUE, TRUE)

\* the sentence contains a verb phrase of the list of category cat (1..6, declaration order)
HasVerbOf(sentence, cat) ==
  \E w \in Range(VERB_CATEGORY_DICT[cat].words) : Contains(sentence, w)

OBSTACLE == 1
DIFFICULTY == 2
LOSS == 3
DESIRE == 4
REJECTION == 5
SUCCESS == 6

(* C1: combination policy of _classify_sentence.  For every classified sentence:
   when morphology is enabled and its inference yields a voice with confidence
   >= 0.6, the insight carries exactly that voice, confidence and reasoning and
   the lexical classifier is not consulted; otherwise the lexical classifier
   decides (its voice and confidence, reasoning "keyword based"), and when it
   yields nothing either there is no insight. *)
C1_CombinationPolicy ==
  \A k \in DOMAIN calls :
    LET c == calls[k]
        blank == Strip(c.sentence) = <<>>
        byMorphology == c.morph_ran /\ c.morph.pivot # "None" /\ c.morph.conf >= 60
    IN /\ c.morph_ran = (analyzer.use_morphology /\ ~blank)
       /\ blank => c.insight = <<>>
       /\ byMorphology =>
            /\ ~c.lexical_ran
            /\ c.insight # <<>>
            /\ c.insight[1].pivot_voice = c.morph.pivot
            /\ c.insight[1].confidence = c.morph.conf
            /\ c.insight[1].reasoning = c.morph.reason
       /\ (~byMorphology /\ ~blank) =>
            /\ c.lexical_ran
            /\ IF c.pivot_result.voice = "None" THEN c.insight = <<>>
               ELSE /\ c.insight # <<>>
                    /\ c.insight[1].pivot_voice = c.pivot_result.voice
                    /\ c.insight[1].confidence = c.pivot_result.confidence
                    /\ c.insight[1].reasoning = KeywordBased

\* a sentence whose morphology voice was accepted although the lexical classifier gives another voice
C1_Witness ==
  \E k \in DOMAIN calls :
    /\ calls[k].morph_ran
    /\ calls[k].morph.conf >= 60
    /\ calls[k].insight # <<>>
    /\ calls[k].insight[1].pivot_voice = calls[k].morph.pivot
    /\ ClassifyPivot(calls[k].sentence).voice \notin {"None", calls[k].morph.pivot}

(* C2: rule 1 has the highest priority.  Every analysed sentence that contains a
   verb phrase of the Obstacle or the Difficulty list, with adjective sentiment
   < 0 and tail certainty >= 0.9, is inferred as Pain with confidence 0.9,
   whatever other verbs it contains. *)
C2_Rule1First ==
  \A k \in DOMAIN calls :
    LET c == calls[k] IN
      ( /\ c.morph_ran
        /\ HasVerbOf(c.sentence, OBSTACLE) \/ HasVerbOf(c.sentence, DIFFICULTY)
        /\ c.morph_result.sentiment_num < 0
        /\ c.morph_result.certainty >= 9 )
      => (c.morph.pivot = "P" /\ c.morph.conf = 90)

(* C3: when rule 1 does not fire, the verb rules are resolved in the category order
   Loss > Desire > Rejection > Success, whatever the position of the verbs in the
   sentence: a Loss verb gives I 0.85, else a Desire verb V 0.85, else a Rejection
   verb O 0.85, else a Success verb T with 0.9 if the sentiment is > 0 and 0.7
   otherwise. *)
C3_VerbCategoryOrder ==
  \A k \in DOMAIN calls :
    LET c == calls[k]
        rule1 == c.morph.pivot = "P" /\ c.morph.conf = 90
        is(p, conf) == c.morph.pivot = p /\ c.morph.conf = conf
    IN (c.morph_ran /\ ~rule1) =>
         IF HasVerbOf(c.sentence, LOSS) THEN is("I", 85)
         ELSE IF HasVerbOf(c.sentence, DESIRE) THEN is("V", 85)
         ELSE IF HasVerbOf(c.sentence, REJECTION) THEN is("O", 85)
         ELSE IF HasVerbOf(c.sentence, SUCCESS)
              THEN is("T", IF c.morph_result.sentiment_num > 0 THEN 90 ELSE 70)
         ELSE TRUE

\* the first position at which w occurs in text (0 if it does not occur)
FirstIndexOf(text, w) ==
  IF Contains(text, w) THEN CHOOSE i \in 1..Len(text) :
                              StartsWithAt(text, w, i) /\ \A j \in 1..(i - 1) : ~StartsWithAt(text, w, j)
  ELSE 0

\* a sentence in which a Success verb stands before a Desire verb and Vision is inferred
C3_Witness ==
  \E k \in DOMAIN calls :
    /\ calls[k].morph_ran
    /\ calls[k].morph.pivot = "V" /\ calls[k].morph.conf = 85
    /\ \E s \in Range(VERB_CATEGORY_DICT[SUCCESS].words), d \in Range(VERB_CATEGORY_DICT[DESIRE].words) :
         /\ FirstIndexOf(calls[k].sentence, s) > 0
         /\ FirstIndexOf(calls[k].sentence, s) < FirstIndexOf(calls[k].sentence, d)

(* C4: lexical tie-break.  When the lexical classifier is consulted it returns the
   voice with the greatest voice score among those scoring above 0, the first such
   voice in the order P, I, V, O, T when several share the maximum, and nothing
   exactly when every voice scores 0. *)
C4_LexicalTieBreak ==
  \A k \in DOMAIN calls :
    LET c == calls[k]
        occ == WordsIn(c.sentence)
        scores == [i \in DOMAIN PIVOT_ALL |-> VoiceScore(c.sentence, occ, PIVOT_ALL[i]).confidence]
        score(i) == scores[i]
        r == c.pivot_result
    IN c.lexical_ran =>
         /\ (r.voice = "None") = (\A i \in DOMAIN PIVOT_ALL : score(i) = 0)
         /\ r.voice # "None" =>
              \E i \in DOMAIN PIVOT_ALL :
                /\ PIVOT_ALL[i] = r.voice
                /\ r.confidence = score(i)
                /\ score(i) > 0
                /\ \A j \in DOMAIN PIVOT_ALL : score(j) <= score(i)
                /\ \A j \in 1..(i - 1) : score(j) < score(i)

\* the lexical classifier decided between two voices with the same, greatest score
C4_Witness ==
  \E k \in DOMAIN calls :
    LET c == calls[k]
        occ == WordsIn(c.sentence)
        score(i) == VoiceScore(c.sentence, occ, PIVOT_ALL[i]).confidence
    IN /\ c.lexical_ran
       /\ c.pivot_result.voice = "P"
       /\ c.pivot_result.confidence >= 40
       /\ score(4) = c.pivot_result.confidence

(* C5: scenario B.  With the default configuration the sentence
   自動化できたらとても助かる is classified as voice V with confidence >= 0.6. *)
ScenarioB == <<33258, 21205, 21270, 12391, 12365, 12383, 12425, 12392, 12390, 12418, 21161, 12363, 12427>>

C5_ScenarioB ==
  (phase = "analyzed" /\ analyzer = DefaultAnalyzer /\ video.has_transcript /\ video.full_text = ScenarioB)
  => /\ Len(Items) = 1
     /\ Items[1].pivot_voice = "V"
     /\ Items[1].confidence >= 60

(* C6: tail-only inference.  For every analysed sentence in which no verb rule
   fires: if its ending matches a speculative pattern the tail signal is certainty
   0.6 with tendency I and the sentence is classified I with confidence 0.75; tail
   tendency I with certainty <= 0.6 gives I 0.75, tendency V gives V 0.8, tendency O
   gives O 0.8, before the adjective-only rules are considered. *)
SpeculativeTails == {5, 6, 7, 8}   \* the entries of TAIL_PATTERNS under "speculative (certainty 0.6)"

C6_TailOnly ==
  \A k \in DOMAIN calls :
    LET c == calls[k]
        m == c.morph_result
        speculative == \E t \in SpeculativeTails : Search(TAIL_PATTERNS[t].pattern, c.sentence)
    IN (c.morph_ran /\ VerbRules(m, 1).pivot = "None") =>
         /\ speculative =>
              /\ m.certainty = 6 /\ m.pivot_tendency = "I"
              /\ c.insight # <<>> /\ c.insight[1].pivot_voice = "I" /\ c.insight[1].confidence = 75
         /\ (m.pivot_tendency = "I" /\ m.certainty <= 6) => (c.morph.pivot = "I" /\ c.morph.conf = 75)
         /\ m.pivot_tendency = "V" => (c.morph.pivot = "V" /\ c.morph.conf = 80)
         /\ m.pivot_tendency = "O" => (c.morph.pivot = "O" /\ c.morph.conf = 80)

(* C7: minimum-length guard.  In every configuration, no insight comes from a
   candidate sentence whose trimmed length is below 10: the body of every insight
   of a result has at least 10 characters. *)
C7_MinLength ==
  /\ \A k \in DOMAIN calls : Len(Strip(calls[k].sentence)) < 10 => calls[k].insight = <<>>
  /\ \A i \in DOMAIN Items : Len(Strip(Items[i].body)) >= 10

(* C8: confidence floor.  Every insight of a result has confidence >= min_confidence;
   the result holds exactly the insights of the sentences whose accepted
   classification reaches the floor, so a sentence whose accepted classification
   is below it contributes nothing, the other classifier getting no second chance. *)
C8_ConfidenceFloor ==
  phase = "analyzed" =>
    /\ \A i \in DOMAIN Items : Items[i].confidence >= analyzer.min_confidence
    /\ \A i \in DOMAIN Items : \E k \in DOMAIN calls : calls[k].insight = <<Items[i]>>
    /\ Len(Items) = Cardinality({k \in DOMAIN calls :
                                   /\ calls[k].insight # <<>>
                                   /\ calls[k].insight[1].confidence >= analyzer.min_confidence})

\* a morphology result below the floor was dropped although the lexical classifier reaches the floor
C8_Witness ==
  /\ phase = "analyzed"
  /\ Items = <<>>
  /\ \E k \in DOMAIN calls :
       /\ calls[k].insight # <<>>
       /\ calls[k].morph.conf >= 60
       /\ calls[k].insight[1].confidence < analyzer.min_confidence
       /\ ClassifyPivot(calls[k].sentence).confidence >= analyzer.min_confidence

(* C9: for every insight, the confidence lies in [0,1], the voice is one of P, I, V,
   O, T, and pivot_score and pivot_label are the table values of the voice
   (P:-2 Pain, I:-1 Insecurity, V:+1 Vision, O:-1 Objection, T:+2 Traction). *)
C9_VoiceTable ==
  \A k \in DOMAIN calls : \A i \in DOMAIN calls[k].insight :
    LET it == calls[k].insight[i] IN
      /\ it.confidence \in 0..100
      /\ <<it.pivot_voice, it.pivot_score, it.pivot_label>> \in
           { <<"P", -2, "Pain">>, <<"I", -1, "Insecurity">>, <<"V", 1, "Vision">>,
             <<"O", -1, "Objection">>, <<"T", 2, "Traction">> }

\* a result that holds an Objection insight
C9_Witness == \E i \in DOMAIN Items : Items[i].pivot_voice = "O" /\ Items[i].pivot_score = -1

(* C10: for every insight, intensity_score = base score of the voice x degree_factor
   x certainty, with the degree_factor and certainty stored on that insight, and
   without rounding (in hundredths: base x tenths x tenths). *)
C10_Intensity ==
  \A k \in DOMAIN calls : \A i \in DOMAIN calls[k].insight :
    LET it == calls[k].insight[i]
        base == CASE it.pivot_voice = "P" -> -2 [] it.pivot_voice = "I" -> -1
                  [] it.pivot_voice = "V" -> 1 [] it.pivot_voice = "O" -> -1
                  [] it.pivot_voice = "T" -> 2
    IN it.intensity_score = base * it.degree_factor * it.certainty

\* an insight whose degree factor and certainty both differ from 1.0
C10_Witness ==
  \E i \in DOMAIN Items :
    /\ Items[i].degree_factor # 10
    /\ Items[i].certainty # 10
    /\ Items[i].intensity_score # 100 * Items[i].pivot_score
(* C11: in every analysis result, total_score is the sum of the base scores
   (pivot_score) of the insights of items, and sentiment_index is
   total_score / number of insights when there is an insight, 0.0 when there is none. *)
C11_Aggregates ==
  phase = "analyzed" =>
    LET r == result[1]
        count(sc) == Cardinality({i \in DOMAIN r.items : r.items[i].pivot_score = sc})
    IN /\ r.total_score = (-2) * count(-2) + (-1) * count(-1) + count(1) + 2 * count(2)
       /\ \A i \in DOMAIN r.items : r.items[i].pivot_score \in {-2, -1, 1, 2}
       /\ IF Len(r.items) > 0
          THEN r.sentiment_index = [num |-> r.total_score, den |-> Len(r.items)]
          ELSE r.sentiment_index = [num |-> 0, den |-> 1]

\* a result of two insights whose intensities do not add up to the total of the base scores
C11_Witness ==
  /\ phase = "analyzed"
  /\ Len(Items) = 2
  /\ result[1].total_score # 0
  /\ result[1].sentiment_index.den = 2
  /\ Items[1].intensity_score + Items[2].intensity_score # 100 * result[1].total_score

(* C12: an empty or missing transcript (transcript None, or full_text "") gives a
   result: no sentence is classified, items is empty, total_score is 0,
   sentiment_index is 0.0, every per-voice group is empty and every per-voice count
   0, and the process and tool groupings are empty. *)
C12_EmptyTranscript ==
  (phase = "analyzed" /\ (~video.has_transcript \/ video.full_text = <<>>)) =>
    /\ Len(result) = 1
    /\ calls = <<>>
    /\ result[1].items = <<>>
    /\ result[1].total_score = 0
    /\ result[1].sentiment_index = [num |-> 0, den |-> 1]
    /\ DOMAIN result[1].by_pivot = {"P", "I", "V", "O", "T"}
    /\ \A p \in DOMAIN result[1].by_pivot : result[1].by_pivot[p] = <<>>
    /\ result[1].stats.total = 0
    /\ DOMAIN result[1].stats.by_pivot = {"P", "I", "V", "O", "T"}
    /\ \A p \in DOMAIN result[1].stats.by_pivot : result[1].stats.by_pivot[p] = 0
    /\ result[1].by_process = <<>>
    /\ result[1].by_tool = <<>>

\* a video without transcript has been analysed by an analyzer that is not the default one
C12_Witness ==
  /\ phase = "analyzed"
  /\ ~video.has_transcript
  /\ analyzer # DefaultAnalyzer
  /\ result # <<>>
  /\ result[1].items = <<>>


\* the insights that passed the confidence floor, in the order of their sentences
AcceptedInOrder ==
  LET kept == SelectSeq(calls, LAMBDA c : c.insight # <<>> /\ c.insight[1].confidence >= analyzer.min_confidence)
  IN [k \in DOMAIN kept |-> kept[k].insight[1]]

(* C13: the domain re-rank is a stable descending sort.  The items of the result
   are a permutation of the accepted insights; their keys weight(voice) x
   |intensity_score| (the weight of the domain table, 1.0 for every voice when
   the domain is absent or unknown) never increase along the list; and two
   insights whose keys are equal (as the doubles the engine computes) stand in
   the order of their sentences. *)
C13_StableRerank ==
  phase = "analyzed" =>
    LET acc == AcceptedInOrder
        items == result[1].items
        weight(voice) == IF analyzer.domain = "requirements" THEN [P |-> 15, I |-> 10, V |-> 20, O |-> 8, T |-> 10][voice]
                         ELSE IF analyzer.domain = "biz_analysis" THEN [P |-> 20, I |-> 12, V |-> 10, O |-> 10, T |-> 15][voice]
                         ELSE IF analyzer.domain = "hr_evaluation" THEN [P |-> 10, I |-> 20, V |-> 15, O |-> 18, T |-> 12][voice]
                         ELSE IF analyzer.domain = "daily_concerns" THEN [P |-> 18, I |-> 20, V |-> 10, O |-> 12, T |-> 10][voice]
                         ELSE IF analyzer.domain = "customer_voice" THEN [P |-> 18, I |-> 10, V |-> 20, O |-> 12, T |-> 15][voice]
                         ELSE IF analyzer.domain = "retrospective" THEN [P |-> 15, I |-> 12, V |-> 15, O |-> 12, T |-> 18][voice]
                         ELSE 10
        magnitude(it) == IF it.intensity_score < 0 THEN - it.intensity_score ELSE it.intensity_score
        value(it) == magnitude(it) * weight(it.pivot_voice)
        ulps(it) == RoundingOf(WeightedRounding, <<magnitude(it), it.intensity_rounding, weight(it.pivot_voice)>>)
        equal(a, b) == value(a) = value(b) /\ ulps(a) = ulps(b)
        atLeast(a, b) == value(a) > value(b) \/ (value(a) = value(b) /\ ulps(a) >= ulps(b))
    IN /\ Len(items) = Len(acc)
       /\ \E pi \in [DOMAIN items -> DOMAIN acc] :
            /\ \A i, j \in DOMAIN items : i # j => pi[i] # pi[j]
            /\ \A i \in DOMAIN items : items[i] = acc[pi[i]]
            /\ \A i, j \in DOMAIN items :
                 i < j => /\ atLeast(items[i], items[j])
                          /\ equal(items[i], items[j]) => pi[i] < pi[j]

\* under biz_analysis a Pain insight ranks before an earlier Traction insight of greater magnitude
C13_Witness ==
  /\ phase = "analyzed"
  /\ analyzer.domain = "biz_analysis"
  /\ Len(Items) = 2
  /\ Len(AcceptedInOrder) = 2
  /\ AcceptedInOrder[1].pivot_voice = "T" /\ AcceptedInOrder[1].intensity_score = 180
  /\ AcceptedInOrder[2].pivot_voice = "P" /\ AcceptedInOrder[2].intensity_score = -140
  /\ Items[1] = AcceptedInOrder[2]
  /\ Items[2] = AcceptedInOrder[1]


(* C14: within one document the insights are produced in the order of their
   sentences.  The sentences handed to _classify_sentence occur in the
   transcript one after the other, without overlap, in the order of the calls;
   the insights that pass the confidence floor are collected in the order of
   the calls, so that every group by_pivot[v] of the result lists the accepted
   insights of voice v in the order of their sentences, whatever the re-rank
   does to the items. *)
C14_SentenceOrder ==
  phase = "analyzed" =>
    LET text == IF video.has_transcript THEN video.full_text ELSE <<>>
        occursAt(s, p) == p + Len(s) - 1 <= Len(text) /\ SubSeq(text, p, p + Len(s) - 1) = s
        callsOf(v) == SelectSeq(calls, LAMBDA c : /\ c.insight # <<>>
                                                  /\ c.insight[1].confidence >= analyzer.min_confidence
                                                  /\ c.insight[1].pivot_voice = v)
    IN /\ \A k, l \in DOMAIN calls :
            k < l => \E p, q \in DOMAIN text : /\ occursAt(calls[k].sentence, p)
                                               /\ occursAt(calls[l].sentence, q)
                                               /\ p + Len(calls[k].sentence) <= q
       /\ \A v \in {"P", "I", "V", "O", "T"} :
            /\ Len(result[1].by_pivot[v]) = Len(callsOf(v))
            /\ \A i \in DOMAIN callsOf(v) :
                 /\ result[1].by_pivot[v][i] = callsOf(v)[i].insight[1]
                 /\ result[1].by_pivot[v][i].body = callsOf(v)[i].sentence

\* two Traction insights that the re-rank swaps while by_pivot keeps them in sentence order
C14_Witness ==
  /\ phase = "analyzed"
  /\ Len(calls) = 2
  /\ calls[1].sentence # calls[2].sentence
  /\ Len(result[1].by_pivot["T"]) = 2
  /\ result[1].by_pivot["T"][1].body = calls[1].sentence
  /\ result[1].by_pivot["T"][2].body = calls[2].sentence
  /\ Items[1].body = calls[2].sentence
  /\ Items[2].body = calls[1].sentence


(* C15: determinism of the classification.  Two calls of _classify_sentence of one
   analyzer on the same sentence, wherever they stand among the other calls, agree
   on whether an insight is returned and on its voice, confidence, reasoning,
   degree factor, certainty, temperature and layer bindings (and on the locals of
   the call); the insights differ at most in the id that uuid.uuid4() gave them. *)
C15_Determinism ==
  \A k, l \in DOMAIN calls :
    calls[k].sentence = calls[l].sentence =>
      /\ (calls[k].insight = <<>>) = (calls[l].insight = <<>>)
      /\ calls[k].morph_ran = calls[l].morph_ran
      /\ calls[k].lexical_ran = calls[l].lexical_ran
      /\ calls[k].insight # <<>> =>
           LET a == calls[k].insight[1]
               b == calls[l].insight[1]
           IN /\ a.pivot_voice = b.pivot_voice
              /\ a.confidence = b.confidence
              /\ a.reasoning = b.reasoning
              /\ a.degree_factor = b.degree_factor
              /\ a.certainty = b.certainty
              /\ a.temperature = b.temperature
              /\ a.target_layers = b.target_layers
              /\ \A f \in DOMAIN a \ {"id"} : a[f] = b[f]

\* one sentence classified twice in a document, after another call the second time: two insights, two ids
C15_Witness ==
  /\ phase = "analyzed"
  /\ Len(calls) = 2
  /\ calls[1].sentence = calls[2].sentence
  /\ calls[1].insight # <<>> /\ calls[2].insight # <<>>
  /\ calls[1].insight[1].id # calls[2].insight[1].id
  /\ calls[1].insight[1].pivot_voice = calls[2].insight[1].pivot_voice
  /\ calls[1].morph_ran


(* C16: fail-fast configuration.  A configuration error surfaces in the constructor
   or not at all: whatever is wrong with the rule tables, once the constructor has
   returned an engine no analyze_video call of that engine raises; the only
   exception there is is the one that left the constructor. *)
C16_FailFast ==
  raised # "None" => phase = "failed"


\* a result with the ids of its insights blanked
WithoutIds(r) ==
  [r EXCEPT !.items = [i \in DOMAIN r.items |-> [r.items[i] EXCEPT !.id = <<>>]],
            !.by_pivot = [p \in DOMAIN r.by_pivot |->
                            [i \in DOMAIN r.by_pivot[p] |-> [r.by_pivot[p][i] EXCEPT !.id = <<>>]]]]

(* C17: sharing one engine across documents is safe.  However the steps of the
   analyze_video calls of the threads interleave, the engine stays as it was
   constructed and every call returns, up to the ids of the insights, the result
   of analysing its document alone: the same items in the same order, groups,
   counts and scores. *)
C17_SharedEngine ==
  /\ analyzer \in Configurations
  /\ \A t \in DOMAIN inflight :
       inflight[t].pc = "done" =>
         LET doc == inflight[t].doc[1]
             alone == AnalyzeVideo(analyzer, doc, Classified(analyzer, doc))
             shared == WithoutIds(inflight[t].result[1])
         IN /\ shared = alone
            /\ Len(shared.items) = Len(alone.items)
            /\ \A i \in DOMAIN alone.items :
                 /\ shared.items[i].pivot_voice = alone.items[i].pivot_voice
                 /\ shared.items[i].confidence = alone.items[i].confidence
                 /\ shared.items[i].pivot_score = alone.items[i].pivot_score
                 /\ shared.items[i].body = alone.items[i].body

\* two calls on different documents returned after their loops ran interleaved, both with insights
C17_Witness ==
  /\ DOMAIN inflight = Threads
  /\ inflight[1].pc = "done" /\ inflight[2].pc = "done"
  /\ inflight[1].doc # inflight[2].doc
  /\ Len(inflight[1].result[1].items) = 2
  /\ Len(inflight[2].result[1].items) = 2
  /\ inflight[1].result[1].items[1].id # inflight[2].result[1].items[1].id


(* C18: mart export.  to_mart_items returns one record per insight of the result,
   in the order of items; the record's id is "pivot_" followed by the insight's
   id, its mart_type is "pivot_insight", its pivot_voice, pivot_label and
   pivot_score are the insight's voice, the label and the base score of that
   voice, its source_ref.doc_id is the id of the document; and the result is
   still what analyze_video returned. *)
C18_MartExport ==
  marts # <<>> =>
    /\ phase = "analyzed"
    /\ result = <<AnalyzeVideo(analyzer, video, calls)>>
    /\ Len(marts[1]) = Len(result[1].items)
    /\ \A i \in DOMAIN marts[1] :
         LET mart == marts[1][i]
             item == result[1].items[i]
         IN /\ Len(mart.id) = 6 + Len(item.id)
            /\ SubSeq(mart.id, 1, 6) = <<112, 105, 118, 111, 116, 95>>    \* p i v o t _
            /\ SubSeq(mart.id, 7, Len(mart.id)) = item.id
            /\ item.id # <<>>
            /\ mart.mart_type = "pivot_insight"
            /\ mart.pivot_voice = item.pivot_voice
            /\ mart.pivot_label = [P |-> "Pain", I |-> "Insecurity", V |-> "Vision",
                                   O |-> "Objection", T |-> "Traction"][item.pivot_voice]
            /\ mart.pivot_score = [P |-> -2, I |-> -1, V |-> 1, O |-> -1, T |-> 2][item.pivot_voice]
            /\ mart.source_ref.doc_id = video.video_id
            /\ mart.body = item.body

\* the export of a result of two insights of different voices, re-ranked against sentence order
C18_Witness ==
  /\ marts # <<>>
  /\ Len(marts[1]) = 2
  /\ marts[1][1].pivot_voice # marts[1][2].pivot_voice
  /\ marts[1][1].id # marts[1][2].id
  /\ marts[1][1].body = calls[2].sentence
  /\ marts[1][1].source_ref.doc_id = "v4"


\* the video ids of the URLs that callers pass
Ids == { <<97, 98, 99, 49, 50, 51, 52, 53, 54, 55, 56>>, <<100, 101, 102, 49, 50, 51, 52, 53, 54, 55, 56>>, <<103, 104, 105, 49, 50, 51, 52, 53, 54, 55, 56>>, <<100, 81, 119, 52, 119, 57, 87, 103, 88, 99, 81>> }

(* the id that a URL carries: the URL is the id itself or the id after
   .../watch?v=, youtu.be/ or .../embed/, possibly with further query parameters;
   None (the empty sequence) for every other text *)
CarriedId(url) ==
  LET forms(id) == { id,
                     <<104, 116, 116, 112, 115, 58, 47, 47, 119, 119, 119, 46, 121, 111, 117, 116, 117, 98, 101, 46, 99, 111, 109, 47, 119, 97, 116, 99, 104, 63, 118, 61>> \o id,
                     <<104, 116, 116, 112, 115, 58, 47, 47, 119, 119, 119, 46, 121, 111, 117, 116, 117, 98, 101, 46, 99, 111, 109, 47, 119, 97, 116, 99, 104, 63, 118, 61>> \o id \o <<38, 116, 61, 49, 50, 48>>,
                     <<104, 116, 116, 112, 115, 58, 47, 47, 121, 111, 117, 116, 117, 46, 98, 101, 47>> \o id,
                     <<104, 116, 116, 112, 115, 58, 47, 47, 119, 119, 119, 46, 121, 111, 117, 116, 117, 98, 101, 46, 99, 111, 109, 47, 101, 109, 98, 101, 100, 47>> \o id }
  IN IF \E id \in Ids : url \in forms(id)
     THEN <<CHOOSE id \in Ids : url \in forms(id)>>
     ELSE <<>>

\* the ids carried by the entries of a list, in list order
RECURSIVE CarriedIds(_)
CarriedIds(urls) ==
  IF urls = <<>> THEN <<>> ELSE CarriedId(Strip(Head(urls))) \o CarriedIds(Tail(urls))

(* C19: extract_from_urls skips invalid entries.  It returns, in input order, one
   id for each entry that is a video URL (watch?v=, youtu.be/, embed/) or a bare
   video id, and nothing for any other entry, such as "invalid_url": the test's
   list of three valid entries and one invalid entry yields three ids. *)
C19_SkipsInvalid ==
  source.called = "extract_from_urls" =>
    /\ source.returned = CarriedIds(source.arg)
    /\ \A i \in DOMAIN source.arg :
         source.arg[i] = <<105, 110, 118, 97, 108, 105, 100, 95, 117, 114, 108>>    \* invalid_url
           => Len(source.returned) < Len(source.arg)

(* C20: extract_video_id returns the 11-character id of every watch?v=<id>,
   youtu.be/<id> and embed/<id> URL, with or without further query parameters,
   and of a bare id; it returns None for a URL that carries no video id. *)
C20_ExtractVideoId ==
  source.called = "extract_video_id" =>
    LET url == source.arg[1]
    IN /\ CarriedId(url) # <<>> => /\ source.returned = CarriedId(url)
                                   /\ Len(source.returned[1]) = 11
       /\ (SubSeq(url, 1, 4) = <<104, 116, 116, 112>> /\ CarriedId(url) = <<>>)    \* http
            => source.returned = <<>>

(***************************************************************************)
(* C21  JsonStorage.save(videos, append=True) merges and deduplicates:     *)
(* after the call the file holds every video it held before, in addition   *)
(* each new video whose video_id was not in the file, and no video_id      *)
(* twice; so append-saves never lose a stored video.                       *)
(***************************************************************************)
C21_AppendMerges ==
  (store.called = "save" /\ store.append) =>
     LET before == IF store.before = <<>> THEN <<>> ELSE store.before[1]
         after == store.file[1]
         before_ids == {before[k].video_id : k \in DOMAIN before}
     IN /\ \A k \in DOMAIN before : \E j \in DOMAIN after : after[j] = before[k]
        /\ \A i \in DOMAIN store.videos :
              store.videos[i].video_id \notin before_ids
                 => \E j \in DOMAIN after : after[j] = ToDict(store.videos[i], store.include_segments)
        /\ \A j, k \in DOMAIN after : after[j].video_id = after[k].video_id => j = k
        /\ Len(after) = Cardinality(before_ids \cup {store.videos[i].video_id : i \in DOMAIN store.videos})

(***************************************************************************)
(* C22  Lexical score formula: in every _classify_pivot call the score of  *)
(* each voice is min(min(k x 0.2, 0.6) + p, 0.95), k the number of         *)
(* distinct keywords of the voice contained in the sentence and p 0.35 if  *)
(* a regex of the voice matches, else 0; a returned confidence is one of   *)
(* 0.2, 0.35, 0.4, 0.55, 0.6, 0.75, 0.95.                                  *)
(***************************************************************************)
KeywordsContained(text, pivot) == {kw \in Range(PIVOT_KEYWORDS[pivot].keywords) : Contains(text, kw)}

RegexMatches(text, pivot) == \E p \in DOMAIN PIVOT_KEYWORDS[pivot].patterns : Search(PIVOT_KEYWORDS[pivot].patterns[p], text)

C22_LexicalScore ==
  probe.called = "_classify_pivot" =>
     /\ \A i \in DOMAIN PIVOT_ALL :
          LET k == Cardinality(KeywordsContained(probe.text, PIVOT_ALL[i]))
              p == IF RegexMatches(probe.text, PIVOT_ALL[i]) THEN 35 ELSE 0
          IN probe.locals[i].confidence = Min(Min(k * 20, 60) + p, 95)
     /\ probe.returned[1].voice # "None" => probe.returned[1].confidence \in {20, 35, 40, 55, 60, 75, 95}
     /\ probe.returned[1].confidence <= 95

\* a sentence with four keywords of Pain and a Pain regex: 0.6 + 0.35
C22_Witness ==
  /\ probe.called = "_classify_pivot"
  /\ Cardinality(KeywordsContained(probe.text, "P")) >= 4
  /\ RegexMatches(probe.text, "P")
  /\ probe.returned[1] = [voice |-> "P", confidence |-> 95, matched_keywords |-> probe.locals[1].matched_keywords]

(***************************************************************************)
(* C23  Degree factor selection: the degree factor of analyze is the       *)
(* greatest matched factor if an amplifying adverb (> 1.0) is matched,     *)
(* also when attenuating adverbs are matched too; else a matched           *)
(* attenuating factor (< 1.0) if there is one; else 1.0.  It is one of     *)
(* 1.5, 1.3, 1.0, 0.7, 0.4.                                                *)
(***************************************************************************)
\* the factors of DEGREE_ADVERBS of which an adverb is contained in the text
MatchedFactors(text) == {DEGREE_ADVERBS[c].key : c \in {d \in DOMAIN DEGREE_ADVERBS : \E w \in Range(DEGREE_ADVERBS[d].words) : Contains(text, w)}}

C23_DegreeFactor ==
  probe.called = "analyze" =>
     LET matched == MatchedFactors(probe.text)
         degree_factor == probe.returned[1].degree_factor
     IN /\ (\E f \in matched : f > 10) => degree_factor = Greatest(matched)
        /\ ((\A f \in matched : f <= 10) /\ (\E f \in matched : f < 10)) => (degree_factor \in matched /\ degree_factor < 10)
        /\ (\A f \in matched : f = 10) => degree_factor = 10
        /\ degree_factor \in {15, 13, 10, 7, 4}

\* an amplifying and an attenuating adverb in one sentence: the amplifier decides
C23_Witness ==
  /\ probe.called = "analyze"
  /\ \E f \in MatchedFactors(probe.text) : f > 10
  /\ \E f \in MatchedFactors(probe.text) : f < 10
  /\ probe.returned[1].degree_factor = 13

(***************************************************************************)
(* C24  Tail signal priority: certainty and tendency of a sentence are     *)
(* those of the first pattern, in the declared order assertive >           *)
(* experiential > speculative > hearsay > desiderative > negative          *)
(* desiderative, that matches the sentence end; of several classes that    *)
(* match the earlier one wins; without a match certainty is 1.0 and the    *)
(* tendency none.                                                          *)
(***************************************************************************)
\* the classes of TAIL_PATTERNS in declared order, with the indices of their patterns
TailClasses ==
  << [class |-> "assertive", certainty |-> 10, tendency |-> "P", patterns |-> {1, 2}],
     [class |-> "experiential", certainty |-> 9, tendency |-> "P", patterns |-> {3, 4}],
     [class |-> "speculative", certainty |-> 6, tendency |-> "I", patterns |-> {5, 6, 7, 8}],
     [class |-> "hearsay", certainty |-> 4, tendency |-> "I", patterns |-> {9, 10}],
     [class |-> "desiderative", certainty |-> 8, tendency |-> "V", patterns |-> {11, 12, 13}],
     [class |-> "negative desiderative", certainty |-> 8, tendency |-> "O", patterns |-> {14, 15}] >>

\* text.endswith(w)
EndsWith(text, w) == Len(w) <= Len(text) /\ SubSeq(text, Len(text) - Len(w) + 1, Len(text)) = w

\* the patterns of TAIL_PATTERNS of which an alternative ends the text
PatternsAtEnd(text) == {i \in DOMAIN TAIL_PATTERNS : \E a \in Range(TAIL_PATTERNS[i].pattern[1].alts) : EndsWith(text, a)}

\* the classes of which a pattern matches the end of the text
ClassesAtEnd(text) == {c \in DOMAIN TailClasses : TailClasses[c].patterns \cap PatternsAtEnd(text) # {}}

C24_TailPriority ==
  probe.called = "analyze" =>
     LET matching == PatternsAtEnd(probe.text)
         classes == ClassesAtEnd(probe.text)
         morph == probe.returned[1]
     IN /\ matching = {} => (morph.certainty = 10 /\ morph.pivot_tendency = "None")
        /\ matching # {} => /\ morph.certainty = TAIL_PATTERNS[Least(matching)].certainty
                            /\ morph.pivot_tendency = TAIL_PATTERNS[Least(matching)].tendency
                            /\ morph.certainty = TailClasses[Least(classes)].certainty
                            /\ morph.pivot_tendency = TailClasses[Least(classes)].tendency

\* an end that matches an assertive and a hearsay pattern: the assertive class decides
C24_Witness ==
  /\ probe.called = "analyze"
  /\ ClassesAtEnd(probe.text) = {1, 4}
  /\ probe.returned[1].certainty = 10
  /\ probe.returned[1].pivot_tendency = "P"

(***************************************************************************)
(* C25  Layer extraction: process, tool and people are evaluated each on   *)
(* its own; a layer is bound if and only if one of its keywords is         *)
(* contained in the sentence; the value is then the first capture group of *)
(* the layer's first extraction regex, in declared order, that matches     *)
(* the sentence, or else the first keyword of the layer's list that is     *)
(* contained.                                                              *)
(***************************************************************************)
LayerConfig(layer) == LAYER_PATTERNS[CHOOSE i \in DOMAIN LAYER_PATTERNS : LAYER_PATTERNS[i].layer = layer]

\* the indices of the layer's keywords contained in the text
LayerKeywordsIn(text, layer) == {k \in DOMAIN LayerConfig(layer).keywords : Contains(text, LayerConfig(layer).keywords[k])}

\* the indices of the layer's extraction regexes that match the text
LayerRegexesIn(text, layer) == {p \in DOMAIN LayerConfig(layer).extraction_patterns : SearchGroup(LayerConfig(layer).extraction_patterns[p], text) # <<>>}

C25_LayerExtraction ==
  probe.called = "_extract_layers" =>
     /\ DOMAIN probe.returned[1] = {"process", "tool", "people"}
     /\ \A layer \in {"process", "tool", "people"} :
          LET value == probe.returned[1][layer]
              keywords == LayerKeywordsIn(probe.text, layer)
              regexes == LayerRegexesIn(probe.text, layer)
          IN /\ (value # <<>>) = (keywords # {})
             /\ (keywords # {} /\ regexes # {}) =>
                   /\ value = SearchGroup(LayerConfig(layer).extraction_patterns[Least(regexes)], probe.text)
                   /\ Contains(probe.text, value[1])
             /\ (keywords # {} /\ regexes = {}) => value = <<LayerConfig(layer).keywords[Least(keywords)]>>

\* all three layers bound in one sentence, one by its keyword and two by a regex
C25_Witness ==
  /\ probe.called = "_extract_layers"
  /\ \A layer \in {"process", "tool", "people"} : LayerKeywordsIn(probe.text, layer) # {}
  /\ LayerRegexesIn(probe.text, "process") = {}
  /\ LayerRegexesIn(probe.text, "tool") # {}
  /\ LayerRegexesIn(probe.text, "people") # {}
  /\ probe.returned[1] = [process |-> << <<30906, 35469>> >>, tool |-> << <<38651, 35441>> >>, people |-> << <<25285, 24403, 32773>> >>]

(***************************************************************************)
(* C26  Timestamp lookup: the timestamp of a sentence is the start offset  *)
(* of the first timed segment, in segment order, whose key (the first 30   *)
(* characters of its text) is contained in the sentence or contains the    *)
(* sentence's first 30 characters; None when there is no such segment,     *)
(* and always None without timed segments.                                 *)
(***************************************************************************)
\* the segments, by index, whose key is contained in the text or contains its first 30 characters
SegmentsOf(text, segments) ==
  {i \in DOMAIN segments :
     \/ Contains(text, SegmentKey(segments[i].text))
     \/ Contains(SegmentKey(segments[i].text), SubSeq(text, 1, Min(30, Len(text))))}

C26_TimestampLookup ==
  probe.called = "_find_timestamp" =>
     LET matching == SegmentsOf(probe.text, probe.segments)
     IN IF matching = {} THEN probe.returned = <<>>
        ELSE probe.returned = <<probe.segments[Least(matching)].start>>

(***************************************************************************)
(* C27  Verb-category detection is complete per category list: a sentence  *)
(* that contains a verb phrase configured in the list of a category has    *)
(* that category among the verb categories analyze reports, also when the  *)
(* phrase is configured under another category as well.                    *)
(***************************************************************************)
\* the categories of VERB_CATEGORY_DICT in whose list a phrase contained in the text is configured
ConfiguredCategories(text) == {VERB_CATEGORY_DICT[c].key : c \in {d \in DOMAIN VERB_CATEGORY_DICT : \E w \in Range(VERB_CATEGORY_DICT[d].words) : Contains(text, w)}}

C27_VerbCategoriesComplete ==
  probe.called = "analyze" => ConfiguredCategories(probe.text) \subseteq Range(probe.returned[1].verb_categories)

(***************************************************************************)
(* C28  Bounded retry terminates: for one video _extract_with_ytdlp makes  *)
(* at most 6 attempts (the first and 5 retries), retries only after a      *)
(* failure whose message contains "429", waits 15 x 2^n seconds before     *)
(* retry n+1 (15, 30, 60, 120, 240) and returns None once the retries are  *)
(* used up and on any other failure; extract always terminates and         *)
(* returns a TranscriptData, with error set and full_text empty when every *)
(* method failed.                                                          *)
(***************************************************************************)
\* a method failed: it returned None or a TranscriptData with an error
Failed(transcript) == transcript = <<>> \/ transcript[1].error # "None"

C28_Bounds ==
  /\ fetch.attempts <= 6
  /\ fetch.attempts = IF fetch.pc = "idle" THEN 0 ELSE 1 + fetch.retry_count
  /\ fetch.attempts = IF fetch.pc = "idle" THEN 0 ELSE 1 + Len(fetch.slept)
  /\ fetch.pc = "sleeping" => Contains(fetch.failure[1], <<52, 50, 57>>)
  /\ \A n \in DOMAIN fetch.slept : fetch.slept[n] = <<15, 30, 60, 120, 240>>[n]
  /\ (fetch.pc \in {"api", "returned"} /\ fetch.failure # <<>>) =>
        /\ fetch.ytdlp = <<>>
        /\ Contains(fetch.failure[1], <<52, 50, 57>>) => fetch.attempts = 6
  /\ fetch.pc = "returned" =>
        /\ Len(fetch.returned) = 1
        /\ (Failed(fetch.ytdlp) /\ (fetch.api_available => Failed(fetch.api))) =>
              (fetch.returned[1].error # "None" /\ fetch.returned[1].full_text = "")

C28_BoundedRetry == [](C28_Bounds) /\ ((fetch.pc \in {"requesting", "sleeping", "api"}) ~> (fetch.pc = "returned"))

\* all five retries made after rate-limit failures, and extract has returned the error
C28_Witness ==
  /\ fetch.pc = "returned"
  /\ fetch.attempts = 6
  /\ fetch.slept = <<15, 30, 60, 120, 240>>
  /\ fetch.failure # <<>>
  /\ fetch.returned = <<NoTranscript>>

(***************************************************************************)
(* C29  Progressive delay in _collect_videos: after any sequence of        *)
(* per-video outcomes consecutive_failures is the length of the trailing   *)
(* run of videos whose transcript has an error, the delay slept between    *)
(* two requests is min(5 + 5 x consecutive_failures, 60) seconds and so    *)
(* within [5, 60], no delay is slept after the last video, no video ID is  *)
(* processed more than once, and no more than max_videos IDs are processed *)
(* in total.                                                               *)
(***************************************************************************)
\* the length of the run of transcript errors that ends the first n outcomes
RECURSIVE TrailingErrors(_, _)
TrailingErrors(outcomes, n) ==
  IF n = 0 \/ outcomes[n] # "transcript_error" THEN 0 ELSE 1 + TrailingErrors(outcomes, n - 1)

\* the delays slept so far are those of the trailing runs, and none follows the last video
C29_Delays ==
  /\ collect.consecutive_failures = TrailingErrors(collect.outcomes, Len(collect.outcomes))
  /\ \A n \in DOMAIN collect.slept :
        /\ collect.slept[n] = Min(5 + 5 * TrailingErrors(collect.outcomes, n), 60)
        /\ collect.slept[n] >= 5 /\ collect.slept[n] <= 60
  /\ Len(collect.slept) = IF collect.pc = "returned" /\ collect.outcomes # <<>> THEN Len(collect.outcomes) - 1 ELSE Len(collect.outcomes)

\* every processed ID was asked for and none is processed twice
C29_Once ==
  /\ \A m, n \in DOMAIN collect.results : collect.results[m] = collect.results[n] => m = n
  /\ Range(collect.results) \subseteq Range(collect.input)
  /\ Len(collect.outcomes) = Len(collect.results)

\* max_videos, or the default when the caller gave None
C29_Limit == IF collect.max_videos = <<>> THEN 20 ELSE collect.max_videos[1]

C29_ProgressiveDelay == C29_Delays /\ C29_Once /\ Len(collect.results) <= C29_Limit

\* the delay has reached its cap in a call that came to the end of its IDs
C29_DelayCapped ==
  /\ collect.pc = "returned"
  /\ Len(collect.results) = 20
  /\ \E n \in DOMAIN collect.slept : collect.slept[n] = 60 /\ TrailingErrors(collect.outcomes, n) > 11
  /\ \E n \in DOMAIN collect.slept : collect.slept[n] = 5

(***************************************************************************)
(* C30  Grouping consistency of an analysis result: the per-voice groups   *)
(* by_pivot partition items (every insight of items is in the group of its *)
(* own voice, once, and in no other; the group sizes sum to len(items);    *)
(* stats.by_pivot and pain_count .. traction_count equal those sizes), and *)
(* for every process or tool value the per-voice counts of by_process /    *)
(* by_tool sum to the number of insights bound to that value.  items is    *)
(* the list after the domain re-rank.                                      *)
(***************************************************************************)
\* the number of insights of items with the voice p
OfVoice(items, p) == Cardinality({k \in DOMAIN items : items[k].pivot_voice = p})

\* the number of insights of items bound to the value on the layer
BoundOn(items, layer, value) == Cardinality({k \in DOMAIN items : items[k].target_layers[layer] = <<value>>})

\* the per-voice counts of every entry sum to the insights bound to its value, and
\* every value bound in items has one entry
LayerConsistent(items, by_layer, layer) ==
  /\ \A e \in DOMAIN by_layer :
        /\ DOMAIN by_layer[e].counts = {"P", "I", "V", "O", "T"}
        /\ by_layer[e].counts["P"] + by_layer[e].counts["I"] + by_layer[e].counts["V"] + by_layer[e].counts["O"] + by_layer[e].counts["T"] = BoundOn(items, layer, by_layer[e].key)
        /\ \A o \in DOMAIN by_layer : by_layer[o].key = by_layer[e].key => o = e
  /\ \A k \in DOMAIN items : items[k].target_layers[layer] # <<>> =>
        \E e \in DOMAIN by_layer : <<by_layer[e].key>> = items[k].target_layers[layer]

C30_GroupingConsistency ==
  result # <<>> =>
    LET r == result[1]
    IN /\ DOMAIN r.by_pivot = {"P", "I", "V", "O", "T"}
       /\ \A k \in DOMAIN r.items :
             /\ Cardinality({i \in DOMAIN r.by_pivot[r.items[k].pivot_voice] : r.by_pivot[r.items[k].pivot_voice][i] = r.items[k]}) = 1
             /\ \A p \in DOMAIN r.by_pivot \ {r.items[k].pivot_voice} : r.items[k] \notin Range(r.by_pivot[p])
       /\ Len(r.by_pivot["P"]) + Len(r.by_pivot["I"]) + Len(r.by_pivot["V"]) + Len(r.by_pivot["O"]) + Len(r.by_pivot["T"]) = Len(r.items)
       /\ r.stats.total = Len(r.items)
       /\ \A p \in DOMAIN r.by_pivot : r.stats.by_pivot[p] = Len(r.by_pivot[p]) /\ Len(r.by_pivot[p]) = OfVoice(r.items, p)
       /\ pain_count(r) = OfVoice(r.items, "P")
       /\ insecurity_count(r) = OfVoice(r.items, "I")
       /\ vision_count(r) = OfVoice(r.items, "V")
       /\ objection_count(r) = OfVoice(r.items, "O")
       /\ traction_count(r) = OfVoice(r.items, "T")
       /\ LayerConsistent(r.items, r.by_process, "process")
       /\ LayerConsistent(r.items, r.by_tool, "tool")

\* a Vision and a Pain insight bound to one tool value, in a result whose items the domain
\* re-rank put in another order than the sentences
C30_Witness ==
  /\ phase = "analyzed"
  /\ analyzer.domain # "None"
  /\ Len(result[1].items) = 2
  /\ result[1].items[1].body = calls[2].sentence
  /\ result[1].items[1].pivot_voice = "P" /\ result[1].items[2].pivot_voice = "V"
  /\ Len(result[1].by_pivot["V"]) = 1 /\ Len(result[1].by_pivot["P"]) = 1
  /\ \E e \in DOMAIN result[1].by_tool :
        /\ result[1].by_tool[e].counts["P"] = 1 /\ result[1].by_tool[e].counts["V"] = 1
        /\ result[1].items[1].target_layers["tool"] = <<result[1].by_tool[e].key>>
        /\ result[1].items[2].target_layers["tool"] = <<result[1].by_tool[e].key>>

=============================================================================
